---- MODULE Spec2Model ----
\* The JSON-RPC client runtime of package bch_rpc (src/unnamed/part_000): the
\* request registry, the message decoder, the HTTP POST send path with its
\* worker goroutine, and shutdown.
\*
\* Go values are represented as follows.
\*   - a pointer to a jsonRequest is a handle h, an index into calls; its
\*     fields are calls[h].id and the channel responseChan[h];
\*   - a pointer that may be nil (to a float64, to an RPCError) is a sequence
\*     of length at most one: <<>> is nil, <<v>> points at v;
\*   - a float64 is the integer number of halves it holds (3 is 1.5);
\*   - a buffered channel is the sequence of the values it holds;
\*   - byte slices and errors are strings, NilBytes and NoErr being nil.
EXTENDS Integers, Sequences, FiniteSets, TLC

\* Number of futures handed out (sendCmd calls plus custom requests).
MaxCalls == 2

\* Number of direct NextID calls, over both clients.
MaxNextIDs == 6

\* Number of requests made for addRequest with an id of the caller's choice,
\* and the largest such id.
MaxRequests == 3

\* const sendPostBufferSize: capacity of the HTTP POST send channel.
sendPostBufferSize == 100

\* Capacity of a response channel: make(chan *response, 1).
responseChanSize == 1

VARIABLES
  HTTPPostMode,  \* c.config.HTTPPostMode
  id,            \* c.id
  shutdown,      \* c.shutdown: "open" or "closed"
  closes,        \* history: number of close(c.shutdown) executed
  panicked,      \* the process died of a runtime panic
  requestLock,   \* c.requestLock: "free" or the function holding it
  requestMap,    \* c.requestMap: id -> handle of the list element's request
  requestList,   \* c.requestList, front first
  calls,         \* the futures handed out and their jsonRequest, by handle
  responseChan,  \* responseChan[h]: contents of the future's channel
  wlog,          \* history: the writer of every value sent on responseChan[h]
  recvd,         \* history: number of values received from responseChan[h]
  sendPostChan,  \* c.sendPostChan
  worker,        \* the sendPostHandler goroutine: its position and details
  wg,            \* c.wg counter
  shut,          \* Shutdown: the drain cursor e, and the history of its calls
  hmRet,         \* the return site of the last handleMessage call
  hmPending,     \* handleMessage between removeRequest and the delivery
  issued,        \* number of sendCmd calls made before the first state
  peerID,        \* the id field of a second Client
  nextIDLog,     \* history: <<client, value>> of every direct NextID call
  ret,           \* the last return value of a function called directly
  waited,        \* history: a WaitForShutdown call has returned
  redis,         \* the Redis server behind Bloom.r: key -> offsets of the bits set
  updated,       \* history: <<key, item>> of the Update calls that returned nil
                 \* with no bit of the key cleared since
  bloomRet,      \* the last return value of Bloom.Update or Bloom.IsExist
  doShutdownCalls \* the calls of doShutdown from outside Shutdown: pc and return value

\* The bloom filter and its Redis server.
bloom ==
  <<redis, updated, bloomRet>>

\* The state the client's own operations never touch.
ext ==
  <<issued, peerID, nextIDLog, ret, waited, bloom, doShutdownCalls>>

vars ==
  <<HTTPPostMode, id, shutdown, closes, panicked, requestLock, requestMap,
    requestList, calls, responseChan, wlog, recvd, sendPostChan, worker, wg,
    shut, hmRet, hmPending, ext>>

----------------------------------------------------------------------------
\* Values

NilBytes == "<nil>"

NoErr == "<nil>"

\* var ErrClientShutdown
ErrClientShutdown == "the client has been shutdown"

\* type response struct { result []byte; err error }
response(result, err) ==
  [result |-> result, err |-> err]

\* No registry function has been called directly yet.
NoRet == [f |-> "none", result |-> NilBytes, err |-> NoErr, req |-> 0]

NoMsg == [json |-> FALSE, id |-> [t |-> "absent", n2 |-> 0], method |-> "absent",
          params |-> "absent", result |-> "absent", error |-> "absent"]

----------------------------------------------------------------------------
\* Wire payloads and encoding/json

WireNum(n2) == [t |-> "num", n2 |-> n2]

WireID ==
  {[t |-> "absent", n2 |-> 0], [t |-> "null", n2 |-> 0], [t |-> "str", n2 |-> 0]}

Wire(json, wid, method, params, result, error) ==
  [json |-> json, id |-> wid, method |-> method, params |-> params,
   result |-> result, error |-> error]

\* json.Unmarshal of one field into a string: absent and null leave "".
DecodeMethod(f) ==
  IF f \in {"absent", "null"} THEN "" ELSE f

\* json.Unmarshal into []json.RawMessage: absent and null leave the nil slice,
\* [] gives an empty non-nil slice.
DecodeParams(f) ==
  IF f \in {"absent", "null"} THEN [isNil |-> TRUE, len |-> 0]
  ELSE IF f = "empty" THEN [isNil |-> FALSE, len |-> 0]
  ELSE [isNil |-> FALSE, len |-> 1]

\* json.Unmarshal into json.RawMessage: the raw bytes of the value, the
\* literal null included; an absent field leaves the nil slice.
DecodeResult(f) ==
  IF f = "absent" THEN NilBytes
  ELSE IF f = "null" THEN "null"
  ELSE "\"" \o f \o "\""

\* json.Unmarshal into *btcjson.RPCError: absent and null leave nil.
DecodeError(f) ==
  IF f \in {"absent", "null"} THEN <<>> ELSE <<"RPCError: " \o f>>

\* json.Unmarshal into *float64: absent and null leave nil.
DecodeID(wid) ==
  IF wid.t = "num" THEN <<wid.n2>> ELSE <<>>

\* json.Unmarshal(msg, &in) for in of type inMessage: an error for bytes that
\* are not JSON and for an id that is no number.
UnmarshalInMessage(m) ==
  IF ~m.json \/ m.id.t = "str"
  THEN [err |-> TRUE, ID |-> <<>>, Method |-> "", Params |-> DecodeParams("absent"),
        Result |-> NilBytes, Error |-> <<>>]
  ELSE [err |-> FALSE, ID |-> DecodeID(m.id), Method |-> DecodeMethod(m.method),
        Params |-> DecodeParams(m.params), Result |-> DecodeResult(m.result),
        Error |-> DecodeError(m.error)]

\* json.Unmarshal(respBytes, &resp) for resp of type rawResponse: the fields
\* other than result and error are ignored.
UnmarshalRawResponse(m) ==
  IF ~m.json
  THEN [err |-> TRUE, Result |-> NilBytes, Error |-> <<>>]
  ELSE [err |-> FALSE, Result |-> DecodeResult(m.result),
        Error |-> DecodeError(m.error)]

\* func (r rawResponse) result() (result []byte, err error)
resultMut(r) ==
  response(r.Result, IF r.Error # <<>> THEN r.Error[1] ELSE NoErr)

result(r) ==
  IF r.Error # <<>> THEN response(NilBytes, r.Error[1])
  ELSE response(r.Result, NoErr)

\* math.Trunc on a float64 held as a number of halves.
Trunc(x2) ==
  IF x2 >= 0 THEN (x2 \div 2) * 2 ELSE 0 - (((0 - x2) \div 2) * 2)

\* The model's stand-in for 2^64, the first value a uint64 cannot hold; the
\* ids the client hands out in the model stay below it.
Uint64Limit == 8

\* uint64(f) for a non-negative float64 with no fractional part: the values
\* the conversion can give. A value a uint64 cannot hold converts to a
\* result that depends on the implementation.
Uint64(x2) ==
  IF x2 \div 2 < Uint64Limit THEN {x2 \div 2} ELSE 0..(Uint64Limit - 1)

----------------------------------------------------------------------------
\* Inputs

\* Well-formed replies: a number for id and a result, with a null or a
\* non-null error; the result and the error message of a reply name its id.
Replies ==
  {Wire(TRUE, WireNum(2 * k), "absent", "absent", "abc" \o ToString(k), "null") :
     k \in 1..(MaxCalls + 1)}
  \cup {Wire(TRUE, WireNum(2 * k), "absent", "absent", "abc" \o ToString(k),
              "boom" \o ToString(k)) : k \in 1..(MaxCalls + 1)}

\* The payloads fed to handleMessage: bytes that are no JSON, an id that is
\* no number, notifications (valid, without method, without params, with a
\* result), payloads without id, and replies with a fractional and with a
\* negative id.
Messages ==
  {Wire(FALSE, [t |-> "absent", n2 |-> 0], "absent", "absent", "absent", "absent"),
   Wire(TRUE, [t |-> "str", n2 |-> 0], "absent", "absent", "abc", "null"),
   Wire(TRUE, [t |-> "null", n2 |-> 0], "foo", "empty", "absent", "absent"),
   Wire(TRUE, [t |-> "null", n2 |-> 0], "foo", "some", "absent", "absent"),
   Wire(TRUE, [t |-> "null", n2 |-> 0], "", "empty", "absent", "absent"),
   Wire(TRUE, [t |-> "null", n2 |-> 0], "foo", "absent", "absent", "absent"),
   Wire(TRUE, [t |-> "null", n2 |-> 0], "absent", "absent", "abc", "null"),
   Wire(TRUE, [t |-> "absent", n2 |-> 0], "absent", "absent", "abc", "null"),
   Wire(TRUE, WireNum(3), "absent", "absent", "abc", "null"),
   Wire(TRUE, WireNum(0 - 2), "absent", "absent", "abc", "null")}
  \cup Replies

\* The bodies of HTTP replies: bytes that are no JSON, a result with a null
\* error, a result with a non-null error.
Bodies ==
  {Wire(FALSE, [t |-> "absent", n2 |-> 0], "absent", "absent", "absent", "absent"),
   Wire(TRUE, WireNum(2), "absent", "absent", "abc", "null"),
   Wire(TRUE, WireNum(2), "absent", "absent", "abc", "boom")}

\* What c.httpClient.Do and ioutil.ReadAll can give handleSendPostMessage.
HTTPOutcomes ==
  {[k |-> "doErr", body |-> NoMsg], [k |-> "readErr", body |-> NoMsg]}
  \cup {[k |-> "body", body |-> m] : m \in Bodies}

\* The commands passed to sendCmd: one btcjson.CmdMethod rejects, one
\* btcjson.MarshalCmd rejects, and a valid one.
Commands ==
  {"unregistered", "unmarshalable", "valid"}

\* The contexts passed to sendCmd: http.NewRequestWithContext rejects nil.
Contexts ==
  {"nil", "background"}

----------------------------------------------------------------------------
\* Channels and handles

Handles == 1..Len(calls)

EmptyMap == [k \in {} |-> 0]

\* A send on responseChan[h] can proceed.
CanSend(h) ==
  Len(responseChan[h]) < responseChanSize

\* h.responseChan <- resp, by the function named by.
Send(h, by, resp) ==
  /\ responseChan' = [responseChan EXCEPT ![h] = Append(@, resp)]
  /\ wlog' = [wlog EXCEPT ![h] = Append(@, by)]

\* A new future: its channel is made with the values in ch already on it.
NewFuture(rec, by, ch) ==
  /\ calls' = Append(calls, rec)
  /\ responseChan' = Append(responseChan, ch)
  /\ wlog' = Append(wlog, [i \in 1..Len(ch) |-> by])
  /\ recvd' = Append(recvd, 0)

\* select { case <-c.shutdown: ...; default: }
ShutdownClosedMut ==
  FALSE

ShutdownClosed ==
  shutdown = "closed"

----------------------------------------------------------------------------
\* The bloom filter (package bloom_filter)

\* math/big: a non-negative big.Int is held as the sequence of its digits in
\* base Base, lowest first, so that every step stays within 32 bits.
Base == 32768

RECURSIVE NewInt(_)
NewInt(n) ==
  IF n = 0 THEN <<>> ELSE <<n % Base>> \o NewInt(n \div Base)

Digit(a, i) ==
  IF i <= Len(a) THEN a[i] ELSE 0

RECURSIVE AddCarry(_, _, _, _)
AddCarry(a, b, i, c) ==
  IF i > Len(a) /\ i > Len(b)
  THEN (IF c = 0 THEN <<>> ELSE <<c>>)
  ELSE <<(Digit(a, i) + Digit(b, i) + c) % Base>>
         \o AddCarry(a, b, i + 1, (Digit(a, i) + Digit(b, i) + c) \div Base)

\* func (z *Int) Add(x, y *Int) *Int
Add(a, b) ==
  AddCarry(a, b, 1, 0)

RECURSIVE SubBorrow(_, _, _, _)
SubBorrow(a, b, i, c) ==
  IF i > Len(a)
  THEN <<>>
  ELSE <<(Digit(a, i) - Digit(b, i) - c + Base) % Base>>
         \o SubBorrow(a, b, i + 1, IF Digit(a, i) - Digit(b, i) - c < 0 THEN 1 ELSE 0)

\* func (z *Int) Sub(x, y *Int) *Int, for x >= y
Sub(a, b) ==
  SubBorrow(a, b, 1, 0)

\* a times the one digit d, plus c
RECURSIVE MulDigit(_, _, _)
MulDigit(a, d, c) ==
  IF a = <<>>
  THEN (IF c = 0 THEN <<>> ELSE <<c>>)
  ELSE <<(Head(a) * d + c) % Base>> \o MulDigit(Tail(a), d, (Head(a) * d + c) \div Base)

\* func (z *Int) Mul(x, y *Int) *Int
RECURSIVE Mul(_, _)
Mul(a, b) ==
  IF b = <<>> THEN <<>>
  ELSE Add(MulDigit(a, Head(b), 0), <<0>> \o Mul(a, Tail(b)))

RECURSIVE Pow2(_)
Pow2(k) ==
  IF k = 0 THEN 1 ELSE 2 * Pow2(k - 1)

\* func (z *Int) Lsh(x *Int, n uint) *Int
Lsh(a, k) ==
  [i \in 1..(k \div 15) |-> 0] \o MulDigit(a, Pow2(k % 15), 0)

\* func (z *Int) Rsh(x *Int, n uint) *Int
Rsh(a, k) ==
  [i \in 1..(Len(a) - (k \div 15)) |->
     Digit(a, i + (k \div 15)) \div Pow2(k % 15)
     + (Digit(a, i + (k \div 15) + 1) % Pow2(k % 15)) * Pow2(15 - (k % 15))]

\* x ^ y, x & y and x &^ y of two digits
RECURSIVE XorDigit(_, _)
XorDigit(x, y) ==
  IF x = 0 /\ y = 0 THEN 0
  ELSE ((x + y) % 2) + 2 * XorDigit(x \div 2, y \div 2)

RECURSIVE AndDigit(_, _)
AndDigit(x, y) ==
  IF x = 0 \/ y = 0 THEN 0
  ELSE (x % 2) * (y % 2) + 2 * AndDigit(x \div 2, y \div 2)

RECURSIVE AndNotDigit(_, _)
AndNotDigit(x, y) ==
  IF x = 0 THEN 0
  ELSE (x % 2) * (1 - (y % 2)) + 2 * AndNotDigit(x \div 2, y \div 2)

\* func (z *Int) Xor(x, y *Int) *Int
Xor(a, b) ==
  [i \in 1..(IF Len(a) > Len(b) THEN Len(a) ELSE Len(b)) |->
     XorDigit(Digit(a, i), Digit(b, i))]

\* func (z *Int) And(x, y *Int) *Int
And(a, b) ==
  [i \in 1..Len(a) |-> AndDigit(a[i], Digit(b, i))]

\* z.And(x, y.Not(y)) for non-negative x and y: the bits of x that y lacks.
AndNot(a, b) ==
  [i \in 1..Len(a) |-> AndNotDigit(a[i], Digit(b, i))]

\* x.Cmp(big.NewInt(0)) != 0
IsZero(a) ==
  \A i \in 1..Len(a) : a[i] = 0

\* func rsHash(key string) *big.Int; a string is the sequence of its runes.
RECURSIVE rsLoop(_, _, _)
rsLoop(key, h, a) ==
  IF key = <<>> THEN h
  ELSE rsLoop(Tail(key), Add(Mul(h, a), NewInt(Head(key))), Mul(a, NewInt(63689)))

rsHash(key) ==
  rsLoop(key, NewInt(0), NewInt(378551))

\* func jsHash(key string) *big.Int
RECURSIVE jsLoop(_, _)
jsLoop(key, h) ==
  IF key = <<>> THEN h
  ELSE jsLoop(Tail(key), Xor(h, Add(Add(Lsh(h, 5), NewInt(Head(key))), Rsh(h, 2))))

jsHash(key) ==
  jsLoop(key, NewInt(1315423911))

\* pjwHash: high_bits, FFFFFFFF shifted left by 28
high_bits ==
  Lsh(Sub(Lsh(NewInt(1), 32), NewInt(1)), 28)

\* func pjwHash(key string) *big.Int. test != big.NewInt(0) compares two
\* pointers and is always true.
RECURSIVE pjwLoop(_, _, _)
pjwLoop(key, h, test) ==
  IF key = <<>> THEN <<h, test>>
  ELSE pjwLoop(Tail(key), Add(Lsh(h, 4), NewInt(Head(key))),
               And(Add(Lsh(h, 4), NewInt(Head(key))), high_bits))

pjwHash(key) ==
  LET p == pjwLoop(key, NewInt(0), NewInt(0))
  IN And(AndNot(Xor(p[1], Rsh(p[2], 24)), high_bits), NewInt(2147483647))

\* func elfHash(key string) *big.Int; hex_flag is F0000000.
RECURSIVE elfLoop(_, _)
elfLoop(key, h) ==
  IF key = <<>> THEN h
  ELSE LET h1 == Add(Lsh(h, 4), NewInt(Head(key)))
           x == And(h1, Lsh(NewInt(15), 28))
           h2 == IF ~IsZero(x) THEN Xor(h1, Rsh(x, 24)) ELSE h1
       IN elfLoop(Tail(key), AndNot(h2, x))

elfHash(key) ==
  elfLoop(key, NewInt(0))

\* func bkdrHash(key string) *big.Int
RECURSIVE bkdrLoop(_, _)
bkdrLoop(key, h) ==
  IF key = <<>> THEN h
  ELSE bkdrLoop(Tail(key), Add(Mul(h, NewInt(131)), NewInt(Head(key))))

bkdrHash(key) ==
  bkdrLoop(key, NewInt(0))

\* func sdbmHash(key string) *big.Int
RECURSIVE sdbmLoop(_, _)
sdbmLoop(key, h) ==
  IF key = <<>> THEN h
  ELSE sdbmLoop(Tail(key), Add(Add(NewInt(Head(key)), Lsh(h, 6)), Sub(Lsh(h, 16), h)))

sdbmHash(key) ==
  sdbmLoop(key, NewInt(0))

\* func djbHash(key string) *big.Int
RECURSIVE djbLoop(_, _)
djbLoop(key, h) ==
  IF key = <<>> THEN h
  ELSE djbLoop(Tail(key), Add(Add(Lsh(h, 5), h), NewInt(Head(key))))

djbHash(key) ==
  djbLoop(key, NewInt(5381))

\* func dekHash(key string) *big.Int; len(key) of a string of one-byte runes.
RECURSIVE dekLoop(_, _)
dekLoop(key, h) ==
  IF key = <<>> THEN h
  ELSE dekLoop(Tail(key), Xor(Xor(Lsh(h, 5), Rsh(h, 27)), NewInt(Head(key))))

dekHash(key) ==
  dekLoop(key, NewInt(Len(key)))

\* var hashFuncs: the f-th function applied to item.
NumHashFuncs == 8

hashFuncs(f, item) ==
  CASE f = 1 -> rsHash(item)
    [] f = 2 -> jsHash(item)
    [] f = 3 -> pjwHash(item)
    [] f = 4 -> elfHash(item)
    [] f = 5 -> bkdrHash(item)
    [] f = 6 -> sdbmHash(item)
    [] f = 7 -> djbHash(item)
    [] f = 8 -> dekHash(item)

\* func random_generator(hash_value *big.Int) *big.Int: hash_value mod 1<<30
random_generator(hash_value) ==
  Digit(hash_value, 1) + Base * Digit(hash_value, 2)

\* The Redis keys and the items: "v" and "abcdefgh" as runes.
Keys == {"k", "j"}

Items == {<<118>>, <<97, 98, 99, 100, 101, 102, 103, 104>>}

\* real_value for each item and hash function.
real_value ==
  [item \in Items |-> [f \in 1..NumHashFuncs |-> random_generator(hashFuncs(f, item))]]

\* What b.r.Do can do to a call: nothing, or fail its GETBIT or SETBIT in
\* the turn at of the loop (the first, a middle and the last turn).
RedisFailures ==
  {[at |-> 0, cmd |-> "none"]}
  \cup {[at |-> i, cmd |-> c] : i \in {1, 5, NumHashFuncs}, c \in {"GETBIT", "SETBIT"}}

NoBloomRet == [f |-> "none", ok |-> FALSE, err |-> NoErr]

InitBloom ==
  /\ redis = [k \in Keys |-> {}]
  /\ updated = {}
  /\ bloomRet = NoBloomRet

\* Update's loop from turn i on, b the bits of the key: the bits it leaves
\* and the error it returns.
RECURSIVE UpdateLoopMut(_, _, _, _)
UpdateLoopMut(b, item, i, fail) ==
  IF i > NumHashFuncs THEN [bits |-> b, err |-> NoErr]
  ELSE IF fail = [at |-> i, cmd |-> "GETBIT"] THEN [bits |-> b, err |-> "GETBIT error"]
  ELSE IF real_value[item][i] \in b THEN [bits |-> b, err |-> NoErr]
  ELSE IF fail = [at |-> i, cmd |-> "SETBIT"] THEN [bits |-> b, err |-> "SETBIT error"]
  ELSE UpdateLoopMut(b \cup {real_value[item][i]}, item, i + 1, fail)

RECURSIVE UpdateLoop(_, _, _, _)
UpdateLoop(b, item, i, fail) ==
  IF i > NumHashFuncs THEN [bits |-> b, err |-> NoErr]
  ELSE IF fail = [at |-> i, cmd |-> "GETBIT"] THEN [bits |-> b, err |-> "GETBIT error"]
  ELSE IF real_value[item][i] \in b THEN UpdateLoop(b, item, i + 1, fail)
  ELSE IF fail = [at |-> i, cmd |-> "SETBIT"] THEN [bits |-> b, err |-> "SETBIT error"]
  ELSE UpdateLoop(b \cup {real_value[item][i]}, item, i + 1, fail)

\* IsExist's loop from turn i on: what it returns.
RECURSIVE IsExistLoop(_, _, _, _)
IsExistLoop(b, item, i, fail) ==
  IF i > NumHashFuncs THEN [ok |-> TRUE, err |-> NoErr]
  ELSE IF fail = [at |-> i, cmd |-> "GETBIT"] THEN [ok |-> FALSE, err |-> "GETBIT error"]
  ELSE IF ~(real_value[item][i] \in b) THEN [ok |-> FALSE, err |-> NoErr]
  ELSE IsExistLoop(b, item, i + 1, fail)

\* func (b *Bloom) Update(key, item string) error
Update(key, item, fail) ==
  /\ LET r == UpdateLoop(redis[key], item, 1, fail)
     IN /\ redis' = [redis EXCEPT ![key] = r.bits]
        /\ bloomRet' = [f |-> "Update", ok |-> FALSE, err |-> r.err]
        /\ updated' = IF r.err = NoErr THEN updated \cup {<<key, item>>} ELSE updated
  /\ UNCHANGED <<HTTPPostMode, id, shutdown, closes, panicked, requestLock, requestMap,
                 requestList, calls, responseChan, wlog, recvd, sendPostChan, worker,
                 wg, shut, hmRet, hmPending, issued, peerID, nextIDLog, ret, waited,
                 doShutdownCalls>>

\* func (b *Bloom) IsExist(key, item string) (bool, error)
IsExist(key, item, fail) ==
  /\ LET r == IsExistLoop(redis[key], item, 1, fail)
     IN bloomRet' = [f |-> "IsExist", ok |-> r.ok, err |-> r.err]
  /\ UNCHANGED <<HTTPPostMode, id, shutdown, closes, panicked, requestLock, requestMap,
                 requestList, calls, responseChan, wlog, recvd, sendPostChan, worker,
                 wg, shut, hmRet, hmPending, issued, peerID, nextIDLog, ret, waited,
                 redis, updated, doShutdownCalls>>

\* Another Redis client deletes the key: every bit of it is cleared.
Del(key) ==
  /\ redis' = [redis EXCEPT ![key] = {}]
  /\ updated' = {p \in updated : p[1] # key}
  /\ UNCHANGED <<HTTPPostMode, id, shutdown, closes, panicked, requestLock, requestMap,
                 requestList, calls, responseChan, wlog, recvd, sendPostChan, worker,
                 wg, shut, hmRet, hmPending, issued, peerID, nextIDLog, ret, waited,
                 bloomRet, doShutdownCalls>>

----------------------------------------------------------------------------
\* Callers of doShutdown other than Shutdown

MaxCallers == 2

Callers == 1..MaxCallers

\* No such call has begun.
InitDoShutdownCalls ==
  doShutdownCalls = [g \in Callers |-> [pc |-> "call", ret |-> "none"]]

----------------------------------------------------------------------------
\* The client

\* func New(config *ConnConfig) (*Client, error) and func (c *Client) start()
Init ==
  /\ HTTPPostMode \in BOOLEAN
  /\ id = 0
  /\ shutdown = "open"
  /\ closes = 0
  /\ panicked = FALSE
  /\ requestLock = "free"
  /\ requestMap = EmptyMap
  /\ requestList = <<>>
  /\ calls = <<>>
  /\ responseChan = <<>>
  /\ wlog = <<>>
  /\ recvd = <<>>
  /\ sendPostChan = <<>>
  /\ worker = [pc |-> IF HTTPPostMode THEN "select" ELSE "notStarted", cur |-> 0]
  /\ wg = IF HTTPPostMode THEN 1 ELSE 0
  /\ shut = [e |-> 0, returned |-> FALSE, again |-> FALSE, pending |-> {},
            outstanding |-> {}]
  /\ hmRet = "none"
  /\ hmPending = <<>>
  /\ issued = 0
  /\ peerID = 0
  /\ nextIDLog = <<>>
  /\ ret = NoRet
  /\ waited = FALSE
  /\ InitBloom
  /\ InitDoShutdownCalls

\* func (c *Client) NextID() uint64
NextIDMut ==
  id

NextID ==
  id + 1

\* NextID on the second client
peerNextID ==
  peerID + 1

\* func newFutureError(err error) chan *response
newFutureErrorMut(rec, err) ==
  NewFuture(rec, "newFutureError", <<>>)

newFutureError(rec, err) ==
  NewFuture(rec, "newFutureError", <<response(NilBytes, err)>>)

\* The registry after addRequest has pushed h back and indexed it.
addRequestMapMut(h) ==
  requestMap

addRequestMap(h) ==
  (calls'[h].id :> h) @@ requestMap

addRequestListMut(h) ==
  <<h>> \o requestList

addRequestList(h) ==
  Append(requestList, h)

\* c.requestMap[id] in removeRequest: the element found, 0 for nil.
removeRequestElementMut(rid) ==
  IF requestList # <<>> THEN Head(requestList) ELSE 0

removeRequestElement(rid) ==
  IF rid \in DOMAIN requestMap THEN requestMap[rid] ELSE 0

\* delete(c.requestMap, id) and c.requestList.Remove(element)
removeRequestMapMut(rid) ==
  requestMap

removeRequestMap(rid) ==
  [k \in DOMAIN requestMap \ {rid} |-> requestMap[k]]

removeRequestListMut(h) ==
  requestList

removeRequestList(h) ==
  SelectSeq(requestList, LAMBDA e : e # h)

\* func (c *Client) removeAllRequests()
removeAllRequestsMap ==
  EmptyMap

removeAllRequestsListMut ==
  IF requestList = <<>> THEN <<>> ELSE Tail(requestList)

removeAllRequestsList ==
  <<>>

\* The jsonRequest (or bare future) a call makes. after: a Shutdown call had
\* returned when the call began.
Call(kind, rid, jReq, pc) ==
  [kind |-> kind, id |-> rid, jReq |-> jReq, pc |-> pc, after |-> shut.returned]

\* func (c *Client) sendPostRequest(httpReq *http.Request, jReq *jsonRequest):
\* the values the select on c.shutdown leaves on the new request's channel.
sendPostRequestSelect ==
  IF ShutdownClosed THEN <<response(NilBytes, ErrClientShutdown)>> ELSE <<>>

\* func (c *Client) sendPost(ctx context.Context, jReq *jsonRequest), when
\* http.NewRequestWithContext gives an error: the error is sent on the
\* request's channel and sendPost returns.
sendPostNewRequestErrorMut ==
  NewFuture(Call("sendCmd", NextID, TRUE, "enqueue"), "sendPost",
            <<response(NilBytes, "NewRequestWithContext error")>>)

sendPostNewRequestError ==
  NewFuture(Call("sendCmd", NextID, TRUE, "returned"), "sendPost",
            <<response(NilBytes, "NewRequestWithContext error")>>)

\* func (c *Client) sendCmd(ctx context.Context, cmd interface{}) chan *response,
\* through sendRequest and sendPost; in HTTP POST mode up to the send on
\* c.sendPostChan in sendPostRequest.
sendCmd(cmd, ctx) ==
  /\ ~panicked
  /\ Len(calls) < issued + MaxCalls
  /\ IF cmd = "unregistered"
     THEN /\ newFutureError(Call("sendCmd", 0, FALSE, "returned"), "CmdMethod error")
          /\ UNCHANGED id
     ELSE /\ id' = NextID
          /\ IF cmd = "unmarshalable"
             THEN newFutureError(Call("sendCmd", NextID, FALSE, "returned"),
                                 "MarshalCmd error")
             ELSE IF ~HTTPPostMode
             THEN NewFuture(Call("sendCmd", NextID, TRUE, "returned"), "sendCmd", <<>>)
             ELSE IF ctx = "nil"
             THEN sendPostNewRequestError
             ELSE NewFuture(Call("sendCmd", NextID, TRUE, "enqueue"),
                            "sendPostRequest", sendPostRequestSelect)
  /\ UNCHANGED <<HTTPPostMode, shutdown, closes, panicked, requestLock, requestMap,
                 requestList, sendPostChan, worker, wg, shut, hmRet, hmPending>>
  /\ UNCHANGED ext

\* A send on c.sendPostChan can proceed: the buffer has room.
CanEnqueueMut ==
  TRUE

CanEnqueueMutEmpty ==
  sendPostChan = <<>>

CanEnqueue ==
  Len(sendPostChan) < sendPostBufferSize

\* sendPostRequest: c.sendPostChan <- &sendPostDetails{...}, then sendCmd returns.
sendPostRequestEnqueue(h) ==
  /\ ~panicked
  /\ calls[h].pc = "enqueue"
  /\ CanEnqueue
  /\ sendPostChan' = Append(sendPostChan, h)
  /\ calls' = [calls EXCEPT ![h].pc = "returned"]
  /\ UNCHANGED <<HTTPPostMode, id, shutdown, closes, panicked, requestLock, requestMap,
                 requestList, responseChan, wlog, recvd, worker, wg, shut, hmRet,
                 hmPending>>
  /\ UNCHANGED ext

\* func (c *Client) sendPostHandler(): the main loop takes details off the queue
\* and enters handleSendPostMessage.
sendPostHandlerRecvMut ==
  /\ ~panicked
  /\ worker.pc = "select"
  /\ sendPostChan # <<>>
  /\ worker' = [pc |-> "handleSendPostMessage", cur |-> sendPostChan[Len(sendPostChan)]]
  /\ sendPostChan' = SubSeq(sendPostChan, 1, Len(sendPostChan) - 1)
  /\ UNCHANGED <<HTTPPostMode, id, shutdown, closes, panicked, requestLock, requestMap,
                 requestList, calls, responseChan, wlog, recvd, wg, shut, hmRet,
                 hmPending>>
  /\ UNCHANGED ext

sendPostHandlerRecv ==
  /\ ~panicked
  /\ worker.pc = "select"
  /\ sendPostChan # <<>>
  /\ worker' = [pc |-> "handleSendPostMessage", cur |-> Head(sendPostChan)]
  /\ sendPostChan' = Tail(sendPostChan)
  /\ UNCHANGED <<HTTPPostMode, id, shutdown, closes, panicked, requestLock, requestMap,
                 requestList, calls, responseChan, wlog, recvd, wg, shut, hmRet,
                 hmPending>>
  /\ UNCHANGED ext

\* sendPostHandler: case <-c.shutdown: break out
sendPostHandlerShutdown ==
  /\ ~panicked
  /\ worker.pc = "select"
  /\ ShutdownClosed
  /\ worker' = [pc |-> "cleanup", cur |-> 0]
  /\ UNCHANGED <<HTTPPostMode, id, shutdown, closes, panicked, requestLock, requestMap,
                 requestList, calls, responseChan, wlog, recvd, sendPostChan, wg, shut,
                 hmRet, hmPending>>
  /\ UNCHANGED ext

\* The response handleSendPostMessage builds from what the HTTP call gave.
handleSendPostMessageResponseMut(o) ==
  result(UnmarshalRawResponse(o.body))

handleSendPostMessageResponseMutRaw(o) ==
  IF o.k = "doErr" THEN response(NilBytes, "Do error")
  ELSE IF o.k = "readErr" THEN response(NilBytes, "error reading json reply")
  ELSE IF UnmarshalRawResponse(o.body).err
  THEN response("raw", "status code and response")
  ELSE result(UnmarshalRawResponse(o.body))

handleSendPostMessageResponse(o) ==
  IF o.k = "doErr" THEN response(NilBytes, "Do error")
  ELSE IF o.k = "readErr" THEN response(NilBytes, "error reading json reply")
  ELSE IF UnmarshalRawResponse(o.body).err
  THEN response(NilBytes, "status code and response")
  ELSE result(UnmarshalRawResponse(o.body))

\* func (c *Client) handleSendPostMessage(details *sendPostDetails)
handleSendPostMessage(o) ==
  /\ ~panicked
  /\ worker.pc = "handleSendPostMessage"
  /\ CanSend(worker.cur)
  /\ Send(worker.cur, "handleSendPostMessage", handleSendPostMessageResponse(o))
  /\ worker' = [pc |-> "select", cur |-> 0]
  /\ UNCHANGED <<HTTPPostMode, id, shutdown, closes, panicked, requestLock, requestMap,
                 requestList, calls, recvd, sendPostChan, wg, shut, hmRet, hmPending>>
  /\ UNCHANGED ext

\* sendPostHandler, cleanup loop: case details := <-c.sendPostChan
sendPostHandlerCleanupRecv ==
  /\ ~panicked
  /\ worker.pc = "cleanup"
  /\ sendPostChan # <<>>
  /\ worker' = [pc |-> "cleanupSend", cur |-> Head(sendPostChan)]
  /\ sendPostChan' = Tail(sendPostChan)
  /\ UNCHANGED <<HTTPPostMode, id, shutdown, closes, panicked, requestLock, requestMap,
                 requestList, calls, responseChan, wlog, recvd, wg, shut, hmRet,
                 hmPending>>
  /\ UNCHANGED ext

\* sendPostHandler, cleanup loop: the send of ErrClientShutdown
sendPostHandlerCleanupSend ==
  /\ ~panicked
  /\ worker.pc = "cleanupSend"
  /\ CanSend(worker.cur)
  /\ Send(worker.cur, "sendPostHandler", response(NilBytes, ErrClientShutdown))
  /\ worker' = [pc |-> "cleanup", cur |-> 0]
  /\ UNCHANGED <<HTTPPostMode, id, shutdown, closes, panicked, requestLock, requestMap,
                 requestList, calls, recvd, sendPostChan, wg, shut, hmRet, hmPending>>
  /\ UNCHANGED ext

\* sendPostHandler, cleanup loop: default: break cleanup, then c.wg.Done()
sendPostHandlerDone ==
  /\ ~panicked
  /\ worker.pc = "cleanup"
  /\ sendPostChan = <<>>
  /\ worker' = [pc |-> "done", cur |-> 0]
  /\ wg' = wg - 1
  /\ UNCHANGED <<HTTPPostMode, id, shutdown, closes, panicked, requestLock, requestMap,
                 requestList, calls, responseChan, wlog, recvd, sendPostChan, shut,
                 hmRet, hmPending>>
  /\ UNCHANGED ext

\* receiveFuture: r := <-f on a future its caller holds; the receive waits
\* for a value.
receiveFutureRecv(h) ==
  /\ ~panicked
  /\ calls[h].pc = "returned"
  /\ responseChan[h] # <<>>
  /\ responseChan' = [responseChan EXCEPT ![h] = Tail(@)]
  /\ recvd' = [recvd EXCEPT ![h] = @ + 1]
  /\ UNCHANGED <<HTTPPostMode, id, shutdown, closes, panicked, requestLock, requestMap,
                 requestList, calls, wlog, sendPostChan, worker, wg, shut, hmRet,
                 hmPending>>

\* receiveFuture: return r.result, r.err
receiveFutureReturnMut(h) ==
  [f |-> "receiveFuture", result |-> Head(responseChan[h]).result, err |-> NoErr,
   req |-> h]

receiveFutureReturn(h) ==
  [f |-> "receiveFuture", result |-> Head(responseChan[h]).result,
   err |-> Head(responseChan[h]).err, req |-> h]

\* func receiveFuture(f chan *response) ([]byte, error)
receiveFuture(h) ==
  /\ receiveFutureRecv(h)
  /\ UNCHANGED ext

\* receiveFuture, with what it returns kept in ret.
receiveFutureCall(h) ==
  /\ receiveFutureRecv(h)
  /\ ret' = receiveFutureReturn(h)
  /\ UNCHANGED <<issued, peerID, nextIDLog, waited>>
  /\ UNCHANGED <<bloom, doShutdownCalls>>

\* The futures of sendCmd requests on which no response has been sent yet.
Outstanding ==
  {h \in Handles : calls[h].kind = "sendCmd" /\ calls[h].jReq /\ wlog[h] = <<>>}

\* func (c *Client) doShutdown() bool: whether the caller is to close the
\* channel and drain.
doShutdownMut ==
  TRUE

doShutdown ==
  ~ShutdownClosed

\* Shutdown: the holder of c.requestLock from c.requestLock.Lock() to the
\* deferred Unlock.
ShutdownLockMut ==
  "free"

ShutdownLock ==
  "Shutdown"

\* func (c *Client) Shutdown(): c.requestLock.Lock(), doShutdown, and the return
\* of a call that finds the shutdown begun. close of a closed channel panics.
Shutdown ==
  /\ ~panicked
  /\ requestLock = "free"
  /\ IF doShutdown
     THEN /\ shutdown' = "closed"
          /\ closes' = closes + 1
          /\ panicked' = ShutdownClosed
          /\ requestLock' = ShutdownLock
          /\ shut' = [shut EXCEPT !.e = 1,
                                  !.pending = {requestList[i] : i \in 1..Len(requestList)},
                                  !.outstanding = Outstanding]
     ELSE /\ shut' = [shut EXCEPT !.again = TRUE]
          /\ UNCHANGED <<shutdown, closes, panicked, requestLock>>
  /\ UNCHANGED <<HTTPPostMode, id, requestMap, requestList, calls, responseChan, wlog,
                 recvd, sendPostChan, worker, wg, hmRet, hmPending>>
  /\ UNCHANGED ext

\* Shutdown: one turn of the loop over c.requestList, the send of
\* ErrClientShutdown to the request at e.
ShutdownDrain ==
  /\ ~panicked
  /\ shut.e # 0
  /\ shut.e <= Len(requestList)
  /\ CanSend(requestList[shut.e])
  /\ Send(requestList[shut.e], "Shutdown", response(NilBytes, ErrClientShutdown))
  /\ shut' = [shut EXCEPT !.e = @ + 1]
  /\ UNCHANGED <<HTTPPostMode, id, shutdown, closes, panicked, requestLock, requestMap,
                 requestList, calls, recvd, sendPostChan, worker, wg, hmRet, hmPending>>
  /\ UNCHANGED ext

\* Shutdown: e == nil, c.removeAllRequests(), the deferred Unlock.
ShutdownReturn ==
  /\ ~panicked
  /\ shut.e # 0
  /\ shut.e > Len(requestList)
  /\ requestMap' = removeAllRequestsMap
  /\ requestList' = removeAllRequestsList
  /\ requestLock' = "free"
  /\ shut' = [shut EXCEPT !.e = 0, !.returned = TRUE]
  /\ UNCHANGED <<HTTPPostMode, id, shutdown, closes, panicked, calls, responseChan, wlog,
                 recvd, sendPostChan, worker, wg, hmRet, hmPending>>
  /\ UNCHANGED ext

\* func (c *Client) addRequest(jReq *jsonRequest) error, called with a new
\* request made the way sendCmd makes one: its id from NextID, its channel
\* from make(chan *response, 1).
addRequest ==
  /\ ~panicked
  /\ Len(calls) < issued + MaxCalls
  /\ requestLock = "free"
  /\ id' = NextID
  /\ NewFuture(Call("custom", NextID, TRUE, "returned"), "addRequest", <<>>)
  /\ IF ShutdownClosed
     THEN UNCHANGED <<requestMap, requestList>>
     ELSE /\ requestMap' = addRequestMap(Len(calls) + 1)
          /\ requestList' = addRequestList(Len(calls) + 1)
  /\ UNCHANGED <<HTTPPostMode, shutdown, closes, panicked, requestLock, sendPostChan,
                 worker, wg, shut, hmRet, hmPending>>
  /\ UNCHANGED ext

\* handleMessage: in.ID == nil
isNotificationMut(in) ==
  in.ID = <<>> /\ in.Method # ""

isNotification(in) ==
  in.ID = <<>>

\* handleMessage: *in.ID < 0 || *in.ID != math.Trunc(*in.ID)
badIDMut(in) ==
  in.ID[1] < 0

badID(in) ==
  in.ID[1] < 0 \/ in.ID[1] # Trunc(in.ID[1])

\* handleMessage: the place where it returns, or "removeRequest" when it goes
\* on to the registry; "panic" is the dereference of a nil in.ID.
handleMessageSite(in) ==
  IF in.err THEN "unmarshalError"
  ELSE IF isNotification(in)
  THEN (IF in.Method = "" THEN "noMethod"
        ELSE IF in.Params.isNil THEN "noParams"
        ELSE "notification")
  ELSE IF in.ID = <<>> THEN "panic"
  ELSE IF badID(in) THEN "badID"
  ELSE "removeRequest"

\* func (c *Client) handleMessage(msg []byte), up to the delivery
handleMessage(m) ==
  /\ ~panicked
  /\ hmPending = <<>>
  /\ LET in == UnmarshalInMessage(m)
         site == handleMessageSite(in)
     IN IF site = "panic"
        THEN /\ panicked' = TRUE
             /\ hmRet' = site
             /\ UNCHANGED <<requestMap, requestList, hmPending>>
        ELSE IF site # "removeRequest"
        THEN /\ hmRet' = site
             /\ UNCHANGED <<panicked, requestMap, requestList, hmPending>>
        ELSE /\ requestLock = "free"
             /\ \E rid \in Uint64(in.ID[1]) :
                  LET h == removeRequestElement(rid)
                  IN
                   IF h = 0
                   THEN /\ hmRet' = "noRequest"
                        /\ UNCHANGED <<panicked, requestMap, requestList, hmPending>>
                   ELSE /\ requestMap' = removeRequestMap(rid)
                        /\ requestList' = removeRequestList(h)
                        /\ hmPending' = <<[h |-> h, resp |-> result(in)]>>
                        /\ hmRet' = "removed"
                        /\ UNCHANGED panicked
  /\ UNCHANGED <<HTTPPostMode, id, shutdown, closes, requestLock, calls, responseChan,
                 wlog, recvd, sendPostChan, worker, wg, shut>>
  /\ UNCHANGED ext

\* handleMessage: request.responseChan <- &response{result: result, err: err}
handleMessageDeliver ==
  /\ ~panicked
  /\ hmPending # <<>>
  /\ CanSend(hmPending[1].h)
  /\ Send(hmPending[1].h, "handleMessage", hmPending[1].resp)
  /\ hmPending' = <<>>
  /\ hmRet' = "delivered"
  /\ UNCHANGED <<HTTPPostMode, id, shutdown, closes, panicked, requestLock, requestMap,
                 requestList, calls, recvd, sendPostChan, worker, wg, shut>>
  /\ UNCHANGED ext

\* A reply to a request that is registered.
Solicited(m) ==
  (m.id.n2 \div 2) \in DOMAIN requestMap

Next ==
  \/ \E cmd \in Commands, ctx \in Contexts : sendCmd(cmd, ctx)
  \/ \E h \in Handles : sendPostRequestEnqueue(h)
  \/ sendPostHandlerRecv
  \/ sendPostHandlerShutdown
  \/ \E o \in HTTPOutcomes : handleSendPostMessage(o)
  \/ sendPostHandlerCleanupRecv
  \/ sendPostHandlerCleanupSend
  \/ sendPostHandlerDone
  \/ \E h \in Handles : receiveFuture(h)
  \/ Shutdown
  \/ ShutdownDrain
  \/ ShutdownReturn
  \/ addRequest
  \/ \E m \in Replies : Solicited(m) /\ handleMessage(m)
  \/ handleMessageDeliver

\* The client in either mode, with a server that answers the requests
\* outstanding, in any order, with well-formed replies.
Spec ==
  Init /\ [][Next]_vars

\* The client in persistent-connection mode with every payload as input:
\* malformed ones, notifications, unsolicited and repeated replies.
InitDecoder ==
  Init /\ ~HTTPPostMode

NextDecoder ==
  \/ \E cmd \in Commands, ctx \in Contexts : sendCmd(cmd, ctx)
  \/ \E h \in Handles : receiveFuture(h)
  \/ Shutdown
  \/ ShutdownDrain
  \/ ShutdownReturn
  \/ addRequest
  \/ \E m \in Messages : handleMessage(m)
  \/ handleMessageDeliver

SpecDecoder ==
  InitDecoder /\ [][NextDecoder]_vars

\* The client with consumers that keep what receiveFuture returns.
NextReceive ==
  \/ \E cmd \in Commands, ctx \in Contexts : sendCmd(cmd, ctx)
  \/ \E h \in Handles : sendPostRequestEnqueue(h)
  \/ sendPostHandlerRecv
  \/ sendPostHandlerShutdown
  \/ \E o \in HTTPOutcomes : handleSendPostMessage(o)
  \/ sendPostHandlerCleanupRecv
  \/ sendPostHandlerCleanupSend
  \/ sendPostHandlerDone
  \/ \E h \in Handles : receiveFutureCall(h)
  \/ Shutdown
  \/ ShutdownDrain
  \/ ShutdownReturn
  \/ addRequest
  \/ \E m \in Replies : Solicited(m) /\ handleMessage(m)
  \/ handleMessageDeliver

SpecReceive ==
  Init /\ [][NextReceive]_vars

----------------------------------------------------------------------------
\* WaitForShutdown

\* c.wg.Wait() can return: the counter is zero.
wgWaitMut ==
  TRUE

wgWait ==
  wg = 0

\* func (c *Client) WaitForShutdown()
WaitForShutdown ==
  /\ ~panicked
  /\ wgWait
  /\ waited' = TRUE
  /\ UNCHANGED <<HTTPPostMode, id, shutdown, closes, panicked, requestLock, requestMap,
                 requestList, calls, responseChan, wlog, recvd, sendPostChan, worker,
                 wg, shut, hmRet, hmPending, issued, peerID, nextIDLog, ret>>
  /\ UNCHANGED <<bloom, doShutdownCalls>>

NextWait ==
  \/ Next
  \/ WaitForShutdown

\* The client with callers of WaitForShutdown.
SpecWait ==
  Init /\ [][NextWait]_vars

----------------------------------------------------------------------------
\* NextID called by the consumers of two clients

\* The two clients: 1 is the client of the other sections, 2 a second one, of
\* which only the id field is kept.
Clients == {1, 2}

\* c.NextID(), called directly: the atomic add is one step.
NextIDCall(c) ==
  /\ ~panicked
  /\ Len(nextIDLog) < MaxNextIDs
  /\ IF c = 1
     THEN /\ id' = NextID
          /\ nextIDLog' = Append(nextIDLog, <<c, NextID>>)
          /\ UNCHANGED peerID
     ELSE /\ peerID' = peerNextID
          /\ nextIDLog' = Append(nextIDLog, <<c, peerNextID>>)
          /\ UNCHANGED id
  /\ UNCHANGED <<HTTPPostMode, shutdown, closes, panicked, requestLock, requestMap,
                 requestList, calls, responseChan, wlog, recvd, sendPostChan, worker,
                 wg, shut, hmRet, hmPending, issued, ret, waited>>
  /\ UNCHANGED <<bloom, doShutdownCalls>>

NextNextID ==
  \E c \in Clients : NextIDCall(c)

\* Two clients whose consumers call NextID, in any interleaving.
SpecNextID ==
  Init /\ [][NextNextID]_vars

----------------------------------------------------------------------------
\* The registry functions called directly, with ids of the caller's choice

\* The ids of the requests passed to addRequest.
RequestIDs == 1..MaxRequests

\* func (c *Client) addRequest(jReq *jsonRequest) error, called with a new
\* request whose id the caller set; every call passes a request of its own.
addRequestCustom(rid) ==
  /\ ~panicked
  /\ Len(calls) < MaxRequests
  /\ requestLock = "free"
  /\ NewFuture(Call("custom", rid, TRUE, "returned"), "addRequest", <<>>)
  /\ IF ShutdownClosed
     THEN /\ ret' = [f |-> "addRequest", result |-> NilBytes,
                       err |-> ErrClientShutdown, req |-> 0]
          /\ UNCHANGED <<requestMap, requestList>>
     ELSE /\ requestMap' = addRequestMap(Len(calls) + 1)
          /\ requestList' = addRequestList(Len(calls) + 1)
          /\ ret' = [f |-> "addRequest", result |-> NilBytes, err |-> NoErr, req |-> 0]
  /\ UNCHANGED <<HTTPPostMode, id, shutdown, closes, panicked, requestLock, sendPostChan,
                 worker, wg, shut, hmRet, hmPending, issued, peerID, nextIDLog, waited>>
  /\ UNCHANGED <<bloom, doShutdownCalls>>

\* func (c *Client) removeRequest(id uint64) *jsonRequest, called directly;
\* ret.req is the request returned, 0 for nil.
removeRequest(rid) ==
  /\ ~panicked
  /\ requestLock = "free"
  /\ LET h == removeRequestElement(rid)
     IN IF h = 0
        THEN UNCHANGED <<requestMap, requestList>>
        ELSE /\ requestMap' = removeRequestMap(rid)
             /\ requestList' = removeRequestList(h)
  /\ ret' = [f |-> "removeRequest", result |-> NilBytes, err |-> NoErr,
             req |-> removeRequestElement(rid)]
  /\ UNCHANGED <<HTTPPostMode, id, shutdown, closes, panicked, requestLock, calls,
                 responseChan, wlog, recvd, sendPostChan, worker, wg, shut, hmRet,
                 hmPending, issued, peerID, nextIDLog, waited>>
  /\ UNCHANGED <<bloom, doShutdownCalls>>

NextRegistry ==
  \/ \E rid \in RequestIDs : addRequestCustom(rid)
  \/ \E rid \in RequestIDs \cup {MaxRequests + 1} : removeRequest(rid)
  \/ Shutdown
  \/ ShutdownDrain
  \/ ShutdownReturn

\* The registry under any sequence of addRequest, removeRequest and Shutdown
\* calls, the ids of the requests added being any, repeated ones included.
SpecRegistry ==
  Init /\ [][NextRegistry]_vars

----------------------------------------------------------------------------
\* The HTTP POST work queue at capacity

\* The client in HTTP POST mode after sendPostBufferSize sendCmd calls have
\* returned and before the worker has taken any of their requests.
InitFull ==
  /\ HTTPPostMode = TRUE
  /\ id = sendPostBufferSize
  /\ shutdown = "open"
  /\ closes = 0
  /\ panicked = FALSE
  /\ requestLock = "free"
  /\ requestMap = EmptyMap
  /\ requestList = <<>>
  /\ calls = [h \in 1..sendPostBufferSize |->
                [kind |-> "sendCmd", id |-> h, jReq |-> TRUE, pc |-> "returned",
                 after |-> FALSE]]
  /\ responseChan = [h \in 1..sendPostBufferSize |-> <<>>]
  /\ wlog = [h \in 1..sendPostBufferSize |-> <<>>]
  /\ recvd = [h \in 1..sendPostBufferSize |-> 0]
  /\ sendPostChan = [h \in 1..sendPostBufferSize |-> h]
  /\ worker = [pc |-> "select", cur |-> 0]
  /\ wg = 1
  /\ shut = [e |-> 0, returned |-> FALSE, again |-> FALSE, pending |-> {},
            outstanding |-> {}]
  /\ hmRet = "none"
  /\ hmPending = <<>>
  /\ issued = sendPostBufferSize
  /\ peerID = 0
  /\ nextIDLog = <<>>
  /\ ret = NoRet
  /\ waited = FALSE
  /\ InitBloom
  /\ InitDoShutdownCalls

\* The client in HTTP POST mode after Shutdown has returned, the worker has
\* left its cleanup loop, and sendPostBufferSize - 1 sendCmd calls have then
\* returned: each request holds the ErrClientShutdown of sendPostRequest and
\* is on the queue, which nothing reads any more.
InitExited ==
  /\ HTTPPostMode = TRUE
  /\ id = sendPostBufferSize - 1
  /\ shutdown = "closed"
  /\ closes = 1
  /\ panicked = FALSE
  /\ requestLock = "free"
  /\ requestMap = EmptyMap
  /\ requestList = <<>>
  /\ calls = [h \in 1..(sendPostBufferSize - 1) |->
                [kind |-> "sendCmd", id |-> h, jReq |-> TRUE, pc |-> "returned",
                 after |-> TRUE]]
  /\ responseChan = [h \in 1..(sendPostBufferSize - 1) |->
                       <<response(NilBytes, ErrClientShutdown)>>]
  /\ wlog = [h \in 1..(sendPostBufferSize - 1) |-> <<"sendPostRequest">>]
  /\ recvd = [h \in 1..(sendPostBufferSize - 1) |-> 0]
  /\ sendPostChan = [h \in 1..(sendPostBufferSize - 1) |-> h]
  /\ worker = [pc |-> "done", cur |-> 0]
  /\ wg = 0
  /\ shut = [e |-> 0, returned |-> TRUE, again |-> FALSE, pending |-> {},
            outstanding |-> {}]
  /\ hmRet = "none"
  /\ hmPending = <<>>
  /\ issued = sendPostBufferSize - 1
  /\ peerID = 0
  /\ nextIDLog = <<>>
  /\ ret = NoRet
  /\ waited = FALSE
  /\ InitBloom
  /\ InitDoShutdownCalls

\* The server answers every request with the same reply.
FullOutcome ==
  [k |-> "body", body |-> Wire(TRUE, WireNum(2), "absent", "absent", "abc", "null")]

\* Further sendCmd calls with commands that reach the send path, the worker
\* in its main loop, and the callers of the further calls receiving.
NextFull ==
  \/ sendCmd("valid", "background")
  \/ \E h \in Handles : sendPostRequestEnqueue(h)
  \/ sendPostHandlerRecv
  \/ handleSendPostMessage(FullOutcome)
  \/ \E h \in Handles : h > issued /\ receiveFuture(h)

\* The handles the further calls can have: the calls made before the first
\* state (none, sendPostBufferSize - 1 or sendPostBufferSize) have returned.
CallSlots ==
  (1..MaxCalls) \cup ((sendPostBufferSize)..(sendPostBufferSize + MaxCalls))

\* The worker goroutine runs, and so does the goroutine of a caller whose
\* send on the queue can proceed.
FairFull ==
  /\ WF_vars(sendPostHandlerRecv)
  /\ WF_vars(handleSendPostMessage(FullOutcome))
  /\ \A h \in CallSlots : WF_vars(h \in Handles /\ sendPostRequestEnqueue(h))

\* The client from construction, from a full work queue, and from a work
\* queue one short of full that the exited worker left behind.
SpecFull ==
  (Init \/ InitFull \/ InitExited) /\ [][NextFull]_vars /\ FairFull

----------------------------------------------------------------------------
\* Properties

\* The number of values the function by has sent on responseChan[h].
Writes(h, by) ==
  Cardinality({i \in DOMAIN wlog[h] : wlog[h][i] = by})

\* The requests sendCmd made (a jsonRequest, not a bare error future).
SendCmdRequests ==
  {h \in Handles : calls[h].kind = "sendCmd" /\ calls[h].jReq}

\* The requests made for addRequest.
CustomRequests ==
  {h \in Handles : calls[h].kind = "custom"}

Registered(h) ==
  \E i \in DOMAIN requestList : requestList[i] = h

ShutdownResponse ==
  response(NilBytes, ErrClientShutdown)

\* C1: at most one response value is ever sent on the response channel of a
\* request made by sendCmd.
C1_AtMostOneWrite ==
  \A h \in SendCmdRequests : Len(wlog[h]) <= 1

\* C2: once the first Shutdown call has returned, the ID index and the ordered
\* list are empty, and every request that was registered when that call took
\* the registry lock has been sent exactly one value, by Shutdown, and that
\* value is ErrClientShutdown.
C2_ShutdownDrainsRegistry ==
  shut.returned =>
    /\ requestMap = EmptyMap
    /\ requestList = <<>>
    /\ \A h \in shut.pending :
         /\ wlog[h] = <<"Shutdown">>
         /\ recvd[h] = 0 => responseChan[h] = <<ShutdownResponse>>

\* Shutdown has returned after draining two registered requests.
C2_Witness ==
  shut.returned /\ Cardinality(shut.pending) >= 2

\* C3: however many times Shutdown is called, the shutdown channel is closed
\* at most once, Shutdown sends at most one value on any response channel and
\* only on channels of requests registered when the first call took the lock,
\* and a call that finds the shutdown begun closes nothing.
C3_ShutdownOnce ==
  /\ closes <= 1
  /\ ~panicked
  /\ shut.again => closes = 1
  /\ \A h \in Handles :
       /\ Writes(h, "Shutdown") <= 1
       /\ Writes(h, "Shutdown") = 1 => h \in shut.pending

\* A later Shutdown call has returned after the first one drained a request.
C3_Witness ==
  shut.again /\ shut.returned /\ shut.pending # {}

\* C4: a sendCmd call begun after Shutdown returned, with a command that
\* marshals and an HTTP request that builds, returns a future holding
\* ErrClientShutdown.
C4_SendAfterShutdown ==
  \A h \in SendCmdRequests :
    (calls[h].after /\ calls[h].pc = "returned" /\ recvd[h] = 0
       /\ (wlog[h] = <<>> \/ wlog[h][1] # "sendPost"))
      => responseChan[h] = <<ShutdownResponse>>

\* C5: while the client is not shut down, a request made by sendCmd that has
\* been sent no response is registered under its id.
C5_SendCmdRegisters ==
  \A h \in SendCmdRequests :
    (shutdown = "open" /\ wlog[h] = <<>>)
      => /\ Registered(h)
         /\ calls[h].id \in DOMAIN requestMap
         /\ requestMap[calls[h].id] = h

\* The two responses a reply naming id k can give.
ReplyResponses(k) ==
  {response("\"abc" \o ToString(k) \o "\"", NoErr),
   response(NilBytes, "RPCError: boom" \o ToString(k))}

ReplyKey(m) ==
  m.id.n2 \div 2

\* C7: a well-formed reply with a null error whose id is registered makes
\* handleMessage remove exactly that request from the index and from the list,
\* before anything is sent; the delivery then puts (result bytes, nil) on the
\* channel of the removed request and changes neither the registry nor any
\* other channel.
C7_RoundTrip ==
  [][/\ \A m \in Replies :
          (m.error = "null" /\ ReplyKey(m) \in DOMAIN requestMap /\ handleMessage(m))
            => LET h == requestMap[ReplyKey(m)]
               IN /\ requestMap' = [k \in DOMAIN requestMap \ {ReplyKey(m)} |-> requestMap[k]]
                  /\ ~(ReplyKey(m) \in DOMAIN requestMap')
                  /\ \A g \in Handles : Registered(g)' <=> (Registered(g) /\ g # h)
                  /\ Len(requestList') = Len(requestList) - 1
                  /\ hmPending' = <<[h |-> h,
                                     resp |-> response("\"" \o m.result \o "\"", NoErr)]>>
                  /\ UNCHANGED <<responseChan, wlog>>
     /\ handleMessageDeliver
          => /\ ~Registered(hmPending[1].h)
             /\ responseChan'[hmPending[1].h] = <<hmPending[1].resp>>
             /\ \A g \in Handles : g # hmPending[1].h => responseChan'[g] = responseChan[g]
             /\ UNCHANGED <<requestMap, requestList>>
    ]_vars

\* A reply with a null error has been delivered while another request stays
\* registered.
C7_Witness ==
  \E h \in CustomRequests :
    /\ wlog[h] = <<"handleMessage">>
    /\ responseChan[h] # <<>>
    /\ responseChan[h][1].err = NoErr
    /\ requestList # <<>>

\* A wire payload with a result and a non-null error.
ErrorAndResult(m) ==
  m.json /\ ~(m.error \in {"absent", "null"}) /\ ~(m.result \in {"absent", "null"})

\* C8: a reply carrying a result and a non-null error yields (nil, that RPC
\* error), from handleMessage and from handleSendPostMessage alike.
C8_ErrorTakesPrecedence ==
  [][/\ \A m \in Replies :
          (ErrorAndResult(m) /\ ReplyKey(m) \in DOMAIN requestMap /\ handleMessage(m))
            => hmPending' = <<[h |-> requestMap[ReplyKey(m)],
                               resp |-> response(NilBytes, "RPCError: " \o m.error)]>>
     /\ handleMessageDeliver
          => responseChan'[hmPending[1].h] = <<hmPending[1].resp>>
     /\ \A o \in HTTPOutcomes :
          (o.k = "body" /\ ErrorAndResult(o.body) /\ handleSendPostMessage(o))
            => responseChan'[worker.cur] =
                 <<response(NilBytes, "RPCError: " \o o.body.error)>>
    ]_vars

\* One future holds the RPC error handleMessage delivered and another the RPC
\* error handleSendPostMessage delivered.
C8_Witness ==
  \E h1, h2 \in Handles :
    /\ wlog[h1] = <<"handleMessage">>
    /\ responseChan[h1] = <<response(NilBytes, "RPCError: boom" \o ToString(calls[h1].id))>>
    /\ wlog[h2] = <<"handleSendPostMessage">>
    /\ responseChan[h2] = <<response(NilBytes, "RPCError: boom")>>

\* Payloads that are JSON and whose id is null or absent.
NullID(m) ==
  m.json /\ m.id.t \in {"null", "absent"}

\* C9: a payload whose id is null leaves the registry and every response
\* channel as they were, whatever its method and params, and handleMessage
\* returns.
C9_NotificationNoEffect ==
  [][\A m \in Messages :
       (NullID(m) /\ handleMessage(m))
         => /\ UNCHANGED <<requestMap, requestList, responseChan, wlog, hmPending>>
            /\ ~panicked'
    ]_vars

\* A valid notification has been handled while a request was registered.
C9_Witness ==
  hmRet = "notification" /\ requestList # <<>>

\* Malformed payloads: bytes that are no JSON or an id that is no number, a
\* null id with an empty method or without params, a negative or fractional id.
Malformed(m) ==
  \/ ~m.json
  \/ m.id.t = "str"
  \/ m.id.t \in {"null", "absent"} /\ (m.method \in {"absent", "null", ""}
                                        \/ m.params \in {"absent", "null"})
  \/ m.id.t = "num" /\ (m.id.n2 < 0 \/ m.id.n2 % 2 # 0)

\* C10: a malformed payload changes nothing of the client but the record of
\* where handleMessage returned: no registry entry is removed, no response
\* channel is sent on, no lock is kept and the process does not panic, so
\* later messages are handled as before.
C10_MalformedDropped ==
  [][\A m \in Messages :
       (Malformed(m) /\ handleMessage(m))
         => /\ UNCHANGED <<HTTPPostMode, id, shutdown, closes, panicked, requestLock,
                           requestMap, requestList, calls, responseChan, wlog, recvd,
                           sendPostChan, worker, wg, shut, hmPending>>
            /\ hmRet' \in {"unmarshalError", "noMethod", "noParams", "badID"}
    ]_vars

\* handleMessage has dropped a reply with a negative or fractional id while the
\* request with id 1 was registered.
C10_Witness ==
  hmRet = "badID" /\ 1 \in DOMAIN requestMap

\* The values NextID returned on client c, in the order of the increments.
NextIDValues(c) ==
  SelectSeq(nextIDLog, LAMBDA e : e[1] = c)

\* C11: on each client the k-th NextID call returns k, whatever the calls on
\* the other client, so no value is returned twice and the values increase;
\* and a NextID call is always able to proceed.
C11_NextIDCounts ==
  /\ \A c \in Clients :
       \A k \in 1..Len(NextIDValues(c)) : NextIDValues(c)[k][2] = k
  /\ Len(nextIDLog) < MaxNextIDs => \A c \in Clients : ENABLED NextIDCall(c)

\* The consumers of the two clients have called NextID alternately, twice each.
C11_Witness ==
  /\ Len(nextIDLog) >= 4
  /\ \A k \in 1..4 : nextIDLog[k][1] = (IF k % 2 = 1 THEN 1 ELSE 2)

\* What an addRequest call with a request of id rid is to do.
AddRequestPost(rid) ==
  LET h == Len(calls) + 1
  IN IF ShutdownClosed
     THEN /\ ret'.err = ErrClientShutdown
          /\ requestMap' = requestMap
          /\ requestList' = requestList
     ELSE /\ ret'.err = NoErr
          /\ Len(requestList') = Len(requestList) + 1
          /\ requestList'[Len(requestList')] = h
          /\ SubSeq(requestList', 1, Len(requestList)) = requestList
          /\ DOMAIN requestMap' = DOMAIN requestMap \cup {rid}
          /\ requestMap'[rid] = h
          /\ \A k \in DOMAIN requestMap \ {rid} : requestMap'[k] = requestMap[k]

\* C12: an addRequest call that finds the shutdown channel closed returns
\* ErrClientShutdown and leaves the index and the list as they were; any other
\* call puts the request at the tail of the list, indexes it by its id,
\* leaves the other entries alone and returns nil.
C12_AddRequest ==
  [][\A rid \in RequestIDs : addRequestCustom(rid) => AddRequestPost(rid)]_vars

\* addRequest has returned ErrClientShutdown after Shutdown drained a request
\* that an earlier call had added.
C12_Witness ==
  /\ ret.f = "addRequest"
  /\ ret.err = ErrClientShutdown
  /\ shut.returned
  /\ shut.pending # {}

\* What a removeRequest(rid) call is to do; the request registered with an id
\* is the one the index holds for it.
RemoveRequestPost(rid) ==
  IF rid \in DOMAIN requestMap
  THEN /\ ret'.req # 0
       /\ ret'.req = requestMap[rid]
       /\ calls[ret'.req].id = rid
       /\ DOMAIN requestMap' = DOMAIN requestMap \ {rid}
       /\ \A k \in DOMAIN requestMap' : requestMap'[k] = requestMap[k]
       /\ \E i \in DOMAIN requestList :
            /\ requestList[i] = ret'.req
            /\ requestList' = SubSeq(requestList, 1, i - 1)
                                 \o SubSeq(requestList, i + 1, Len(requestList))
  ELSE /\ ret'.req = 0
       /\ requestMap' = requestMap
       /\ requestList' = requestList

\* C13: removeRequest(id) returns the request registered with that id and
\* takes it out of the index and out of the list, the other entries and their
\* order staying as they were; with no request registered with that id it
\* returns nil and changes nothing.
C13_RemoveRequest ==
  [][\A rid \in RequestIDs \cup {MaxRequests + 1} :
       removeRequest(rid) => RemoveRequestPost(rid)]_vars

\* removeRequest has returned the second of three registered requests.
C13_Witness ==
  /\ ret.f = "removeRequest"
  /\ ret.req = 2
  /\ requestList = <<1, 3>>

\* The index and the list hold the same requests: every indexed id points at
\* one list element whose request has that id, every list element is indexed,
\* and no two list elements hold requests of the same id.
RegistryConsistent ==
  /\ \A rid \in DOMAIN requestMap :
       /\ Cardinality({i \in DOMAIN requestList : requestList[i] = requestMap[rid]}) = 1
       /\ calls[requestMap[rid]].id = rid
  /\ \A i \in DOMAIN requestList :
       /\ calls[requestList[i]].id \in DOMAIN requestMap
       /\ requestMap[calls[requestList[i]].id] = requestList[i]
  /\ \A i, j \in DOMAIN requestList :
       i # j => calls[requestList[i]].id # calls[requestList[j]].id

\* C14, as claimed: the index and the list are consistent after any sequence
\* of addRequest, removeRequest and Shutdown calls, addRequest with an id that
\* is registered included.
C14_RegistryConsistent ==
  RegistryConsistent

\* A step that adds a request whose id is registered.
DuplicateAdd ==
  /\ Len(calls') = Len(calls) + 1
  /\ calls'[Len(calls')].id \in DOMAIN requestMap
  /\ requestList' # requestList

\* C14, amended: a consistent registry stays consistent under every
\* addRequest, removeRequest and Shutdown step except an addRequest with an id
\* that is registered.
C14_ConsistentUnlessDuplicate ==
  [][(RegistryConsistent /\ ~DuplicateAdd) => RegistryConsistent']_vars

\* Three requests of different ids were added and one of them removed, and
\* the registry is consistent.
C14_Witness ==
  /\ Len(calls) = MaxRequests
  /\ \A g, h \in Handles : g # h => calls[g].id # calls[h].id
  /\ ret.f = "removeRequest"
  /\ ret.req # 0
  /\ Len(requestList) = MaxRequests - 1
  /\ RegistryConsistent

\* The request h is on the work queue.
InQueue(h) ==
  \E i \in DOMAIN sendPostChan : sendPostChan[i] = h

\* C15: every request handed to the work queue has a response sent on its
\* channel in the end; so once the worker has exited, when nothing takes
\* requests off the queue any more, every request on the queue has been sent
\* one.
C15_QueuedAnswered ==
  worker.pc = "done" => \A h \in Handles : InQueue(h) => wlog[h] # <<>>

\* The sendCmd call h is in sendPostRequest at the send on c.sendPostChan.
AtEnqueue(h) ==
  h \in Handles /\ calls[h].pc = "enqueue"

\* The sendCmd call h has returned its future.
Returned(h) ==
  h \in Handles /\ calls[h].pc = "returned"

\* The work queue holds sendPostBufferSize entries.
QueueFull ==
  Len(sendPostChan) = sendPostBufferSize

\* The work queue holds at most sendPostBufferSize entries, and a sendCmd
\* call at its enqueue cannot proceed while the queue holds that many.
BlocksWhenFull ==
  /\ Len(sendPostChan) <= sendPostBufferSize
  /\ \A h \in Handles :
       (AtEnqueue(h) /\ QueueFull) => ~ENABLED sendPostRequestEnqueue(h)

\* The enqueue of a sendCmd call puts its request at the tail of the queue and
\* returns the call, the request's channel being left as it was.
EnqueueReturns ==
  \A h \in Handles :
    sendPostRequestEnqueue(h) =>
      /\ sendPostChan' = Append(sendPostChan, h)
      /\ calls'[h].pc = "returned"
      /\ responseChan' = responseChan

\* The worker taking an entry leaves room for one on the queue.
TakeMakesRoom ==
  (sendPostHandlerRecv \/ sendPostHandlerCleanupRecv) =>
    Len(sendPostChan') = Len(sendPostChan) - 1

\* C16: the work queue never holds more than 100 entries; a sendCmd call that
\* finds it holding 100 blocks at its enqueue; the worker taking an entry makes
\* room for one; and a call at its enqueue while the queue has room enqueues
\* its request and returns, unless another call takes the room first.
C16_Backpressure ==
  /\ []BlocksWhenFull
  /\ [][TakeMakesRoom /\ EnqueueReturns]_vars
  /\ \A h \in CallSlots : (AtEnqueue(h) /\ ~QueueFull) ~> (Returned(h) \/ QueueFull)

\* A sendCmd call has its request at the tail of the full queue, behind the
\* hundred that filled it, and another call is at its enqueue.
C16_Witness ==
  /\ QueueFull
  /\ sendPostChan[sendPostBufferSize] = sendPostBufferSize + 1
  /\ calls[sendPostBufferSize + 1].pc = "returned"
  /\ AtEnqueue(sendPostBufferSize + 2)

\* C17, as claimed: a sendCmd call never blocks; at its enqueue it can always
\* proceed.
C17_SendCmdNeverBlocks ==
  \A h \in Handles : AtEnqueue(h) => ENABLED sendPostRequestEnqueue(h)

\* C17, amended: the only place where a sendCmd call waits is its enqueue, and
\* there it can proceed whenever the work queue holds fewer than 100 entries,
\* whatever the worker is doing and whether or not the client is shut down.
C17_BlocksOnlyWhenFull ==
  \A h \in Handles :
    /\ calls[h].pc \in {"enqueue", "returned"}
    /\ (AtEnqueue(h) /\ Len(sendPostChan) < sendPostBufferSize)
         => ENABLED sendPostRequestEnqueue(h)

\* After Shutdown and the exit of the worker, a sendCmd call has enqueued its
\* request in the last free place of the queue and returned.
C17_Witness ==
  /\ worker.pc = "done"
  /\ QueueFull
  /\ Returned(sendPostBufferSize)
  /\ calls[sendPostBufferSize].after

\* C18: once a WaitForShutdown call has returned, no worker the client
\* started is running: in HTTP POST mode the sendPostHandler goroutine has
\* left its cleanup loop and called c.wg.Done().
C18_WaitForShutdown ==
  waited =>
    /\ worker.pc = (IF HTTPPostMode THEN "done" ELSE "notStarted")
    /\ wg = 0

\* WaitForShutdown has returned in HTTP POST mode after the cleanup loop of
\* the worker answered a request.
C18_Witness ==
  /\ waited
  /\ HTTPPostMode
  /\ \E h \in Handles : Writes(h, "sendPostHandler") = 1

\* The HTTP call failed: the transport gave an error, the body could not be
\* read, or the body is no JSON-RPC response.
HTTPFailure(o) ==
  o.k \in {"doErr", "readErr"} \/ ~o.body.json

\* What handleSendPostMessage is to do with the request the worker took, the
\* HTTP call having given o.
HandleSendPostMessagePost(o) ==
  LET h == worker.cur
      r == responseChan'[h][Len(responseChan'[h])]
  IN /\ responseChan'[h] = Append(responseChan[h], r)
     /\ wlog'[h] = Append(wlog[h], "handleSendPostMessage")
     /\ \A g \in Handles \ {h} :
          responseChan'[g] = responseChan[g] /\ wlog'[g] = wlog[g]
     /\ HTTPFailure(o) => (r.result = NilBytes /\ r.err # NoErr)
     /\ (~HTTPFailure(o) /\ o.body.error # "null") =>
          (r.result = NilBytes /\ r.err # NoErr)
     /\ (~HTTPFailure(o) /\ o.body.error = "null") =>
          (r.result # NilBytes /\ r.err = NoErr)
     /\ worker'.pc = "select"
     /\ ~panicked'

\* C19: for the request the worker took in its main loop,
\* handleSendPostMessage sends one response on that request's channel and none
\* on any other, a failure of the HTTP call or an RPC error being the
\* response's error, and the worker goes back to its loop; no request is sent
\* two responses by handleSendPostMessage.
C19_HandleSendPostMessage ==
  /\ [](\A h \in Handles : Writes(h, "handleSendPostMessage") <= 1)
  /\ [][\A o \in HTTPOutcomes :
          handleSendPostMessage(o) => HandleSendPostMessagePost(o)]_vars

\* The worker has answered one request with a transport error and another
\* with a result, and is back in its loop.
C19_Witness ==
  /\ worker.pc = "select"
  /\ \E g, h \in Handles :
       /\ wlog[g] = <<"handleSendPostMessage">>
       /\ wlog[h] = <<"handleSendPostMessage">>
       /\ responseChan[g] = <<response(NilBytes, "Do error")>>
       /\ responseChan[h] = <<response(DecodeResult("abc"), NoErr)>>

\* The futures sendCmd returned for commands it could not name or marshal.
FailedCmds ==
  {h \in Handles : calls[h].kind = "sendCmd" /\ ~calls[h].jReq}

\* The error sendCmd gets for the command cmd.
CmdError(cmd) ==
  IF cmd = "unregistered" THEN "CmdMethod error" ELSE "MarshalCmd error"

\* C20: a sendCmd call whose command cannot be named or marshalled returns a
\* future that holds (nil, that error) and leaves the registry and the work
\* queue as they were; the future is sent nothing else, a receive on it can
\* proceed at once, and its request is never registered or queued.
C20_MarshalFailure ==
  /\ [](\A h \in FailedCmds :
         /\ calls[h].pc = "returned"
         /\ wlog[h] = <<"newFutureError">>
         /\ recvd[h] = 0 => ENABLED receiveFuture(h)
         /\ ~Registered(h)
         /\ ~InQueue(h))
  /\ [][\A cmd \in {"unregistered", "unmarshalable"}, ctx \in Contexts :
          sendCmd(cmd, ctx) =>
            /\ responseChan'[Len(calls')] = <<response(NilBytes, CmdError(cmd))>>
            /\ UNCHANGED <<requestMap, requestList, sendPostChan>>]_vars

\* The callers of two sendCmd calls, one with a command that has no method
\* and one with a command that does not marshal, have received.
C20_Witness ==
  \E g, h \in FailedCmds :
    /\ calls[g].id = 0
    /\ calls[h].id # 0
    /\ recvd[g] = 1
    /\ recvd[h] = 1

----------------------------------------------------------------------------
\* The life of a request

\* The requests: the calls that made a jsonRequest, by sendCmd or for
\* addRequest.
Requests ==
  {h \in Handles : calls[h].jReq}

\* The values sent so far on the response channel of h: the times h has been
\* resolved.
Resolutions(h) ==
  Len(wlog[h])

\* C21: a request is pending (registered, unresolved), then completed (its
\* reply delivered by handleMessage, off the registry) or shutdown-cancelled
\* (drained by Shutdown, off the registry), and nothing else: it is resolved
\* once only, by one of a matched reply, the Shutdown drain, or its own send
\* path; while it is registered and no drain is under way it is unresolved,
\* and once resolved by a reply or a finished drain it is off the registry.
C21_RequestStateMachine ==
  \A h \in Requests :
    /\ Resolutions(h) <= 1
    /\ (Registered(h) /\ requestLock # "Shutdown") => wlog[h] = <<>>
    /\ Writes(h, "handleMessage") > 0 => ~Registered(h)
    /\ (Writes(h, "Shutdown") > 0 /\ requestLock # "Shutdown") => ~Registered(h)

----------------------------------------------------------------------------
\* Shutdown and the requests outstanding

\* C22: every sendCmd request outstanding (issued, no response sent yet) at
\* the moment Shutdown closes the shutdown channel resolves to
\* ErrClientShutdown, in either transport mode: the first value sent on its
\* channel is ErrClientShutdown, and one has been sent by the time Shutdown
\* has returned and no worker is running, after which nothing sends
\* ErrClientShutdown to a request that exists.
C22_OutstandingCancelled ==
  \A h \in shut.outstanding :
    /\ (wlog[h] # <<>> /\ recvd[h] = 0) => Head(responseChan[h]) = ShutdownResponse
    /\ (shut.returned /\ worker.pc \in {"notStarted", "done"}) => wlog[h] # <<>>

----------------------------------------------------------------------------
\* The response values

\* C23: every response value sent on a response channel (by handleMessage,
\* handleSendPostMessage, sendPostRequest, sendPost, the cleanup loop of
\* sendPostHandler, Shutdown or newFutureError) has a nil result whenever its
\* error is non-nil: result bytes and an error are never both present.
C23_ResultNilWithError ==
  /\ \A h \in Handles : \A i \in DOMAIN responseChan[h] :
       responseChan[h][i].err # NoErr => responseChan[h][i].result = NilBytes
  /\ \A i \in DOMAIN hmPending :
       hmPending[i].resp.err # NoErr => hmPending[i].resp.result = NilBytes

\* C23 witness: a channel holds a response with an error sent by
\* handleSendPostMessage and another a response with result bytes sent by
\* handleMessage.
C23_Witness ==
  \E g, h \in Handles :
    /\ wlog[g] = <<"handleSendPostMessage">>
    /\ responseChan[g] # <<>>
    /\ Head(responseChan[g]).err # NoErr
    /\ wlog[h] = <<"handleMessage">>
    /\ responseChan[h] # <<>>
    /\ Head(responseChan[h]).result # NilBytes

----------------------------------------------------------------------------
\* receiveFuture

\* receiveFuture on a future whose channel is empty cannot return.
ReceiveBlocksWhileEmpty ==
  \A h \in Handles : responseChan[h] = <<>> => ~ENABLED receiveFutureCall(h)

\* receiveFuture on a future its caller holds can return once a value is on
\* the channel.
ReceiveReturnsOnceWritten ==
  \A h \in Handles :
    (calls[h].pc = "returned" /\ responseChan[h] # <<>> /\ ~panicked)
      => ENABLED receiveFutureCall(h)

\* A return of receiveFuture gives the result and error of the value that was
\* on the channel and leaves the channel empty.
ReceiveReturnsTheValue ==
  \A h \in Handles :
    receiveFutureCall(h) =>
      /\ responseChan[h] # <<>>
      /\ ret'.f = "receiveFuture"
      /\ ret'.req = h
      /\ ret'.result = Head(responseChan[h]).result
      /\ ret'.err = Head(responseChan[h]).err
      /\ responseChan'[h] = <<>>

\* C24: receiveFuture blocks while the future's channel is empty; once a
\* value has been written it returns exactly that value's (result, error)
\* pair and consumes it, leaving the channel empty.
C24_ReceiveFuture ==
  /\ []ReceiveBlocksWhileEmpty
  /\ []ReceiveReturnsOnceWritten
  /\ [][ReceiveReturnsTheValue]_vars

\* C24 witness: two futures have been received from, one resolved by
\* handleSendPostMessage and one by handleMessage; both channels are empty
\* and the last return was the result bytes of the HTTP reply with no error.
C24_Witness ==
  \E g, h \in Handles :
    /\ wlog[g] = <<"handleSendPostMessage">>
    /\ recvd[g] = 1
    /\ responseChan[g] = <<>>
    /\ wlog[h] = <<"handleMessage">>
    /\ recvd[h] = 1
    /\ responseChan[h] = <<>>
    /\ ret.f = "receiveFuture"
    /\ ret.req = g
    /\ ret.result # NilBytes
    /\ ret.err = NoErr

----------------------------------------------------------------------------
\* The shutdown channel

\* No step opens the shutdown channel again, and a step that closes it finds
\* it open.
ShutdownStaysClosed ==
  /\ shutdown = "closed" => shutdown' = "closed"
  /\ closes' # closes => (shutdown = "open" /\ shutdown' = "closed" /\ closes' = 1)

\* C25: the shutdown channel starts open, is closed at most once, and once
\* closed it is closed in every later state, whatever operations follow.
C25_ShutdownOneWay ==
  /\ shutdown = "open"
  /\ closes = 0
  /\ [](closes <= 1 /\ (closes = 1 <=> shutdown = "closed"))
  /\ [][ShutdownStaysClosed]_vars

\* C25 witness: the channel is closed, the worker has exited, a later
\* Shutdown call has come and gone, and a call was begun after Shutdown
\* returned.
C25_Witness ==
  /\ shutdown = "closed"
  /\ closes = 1
  /\ shut.again
  /\ worker.pc = "done"
  /\ \E h \in Handles : calls[h].after

----------------------------------------------------------------------------
\* The delivery of a reply

\* C26: the send by which handleMessage delivers a reply to the request it
\* took off the registry never blocks: at the moment of delivery the
\* capacity-1 channel of that request is empty and nothing has been sent on
\* it, in every interleaving with the HTTP send path and with Shutdown.
C26_DeliveryNeverBlocks ==
  hmPending # <<>> =>
    /\ responseChan[hmPending[1].h] = <<>>
    /\ wlog[hmPending[1].h] = <<>>
    /\ Len(responseChan[hmPending[1].h]) < responseChanSize
    /\ ENABLED handleMessageDeliver

\* C26 witness: handleMessage is about to deliver while a Shutdown call holds
\* the lock and the worker is in an HTTP call.
C26_Witness ==
  /\ hmPending # <<>>
  /\ requestLock = "Shutdown"
  /\ worker.pc = "handleSendPostMessage"

----------------------------------------------------------------------------
\* Replies that match no request

----------------------------------------------------------------------------
\* The registry after shutdown

\* C28: whenever the shutdown channel is closed and no Shutdown call holds
\* the registry lock, the registry is empty: no interleaving of addRequest
\* with Shutdown leaves a request registered after the drain, and the
\* registry is empty in every state after Shutdown has returned.
C28_ClosedMeansEmpty ==
  (shutdown = "closed" /\ requestLock # "Shutdown") =>
    /\ requestMap = EmptyMap
    /\ requestList = <<>>
    /\ \A h \in Handles : ~Registered(h)

\* C28 witness: Shutdown has drained a registered request and returned, and
\* an addRequest call made after it was refused; the lock is free.
C28_Witness ==
  /\ shutdown = "closed"
  /\ requestLock = "free"
  /\ shut.returned
  /\ shut.pending # {}
  /\ ret.f = "addRequest"
  /\ ret.err = ErrClientShutdown
  /\ \E h \in Handles : calls[h].after

----------------------------------------------------------------------------
\* A failed HTTP call

\* c.httpClient.Do returned an error: the request's context was cancelled or
\* past its deadline, or the transport failed.
DoError ==
  [k |-> "doErr", body |-> NoMsg]

\* The response handleSendPostMessage sends for the error Do returned.
DoErrorResponse ==
  response(NilBytes, "Do error")

\* handleSendPostMessage, Do having failed, sends the error on the channel of
\* the request the worker took and leaves the registry and its lock alone.
DoErrorSent ==
  handleSendPostMessage(DoError) =>
    /\ responseChan'[worker.cur] = Append(responseChan[worker.cur], DoErrorResponse)
    /\ UNCHANGED <<requestMap, requestList, requestLock>>

\* A receive that takes the Do error off the channel returns (nil, that error).
DoErrorReceived ==
  \A h \in Handles :
    (receiveFutureCall(h) /\ Head(responseChan[h]) = DoErrorResponse)
      => (ret'.req = h /\ ret'.result = NilBytes /\ ret'.err = "Do error")

\* The send of the Do error does not wait for the registry lock.
DoErrorNeedsNoLock ==
  (worker.pc = "handleSendPostMessage" /\ responseChan[worker.cur] = <<>> /\ ~panicked)
    => ENABLED handleSendPostMessage(DoError)

\* C29: in HTTP POST mode, when the HTTP call for a request fails because
\* the caller's context is cancelled or past its deadline, the worker sends
\* that error on the request's response channel and a receive on the future
\* returns (nil, that error); the registry is not modified and its lock is
\* not taken on this path.
C29_ContextErrorDelivered ==
  /\ []DoErrorNeedsNoLock
  /\ [][DoErrorSent /\ DoErrorReceived]_vars

\* C29 witness: a receive on the future of a request whose HTTP call failed
\* has returned (nil, the Do error), while another request stays registered.
C29_Witness ==
  /\ HTTPPostMode
  /\ ret.f = "receiveFuture"
  /\ ret.result = NilBytes
  /\ ret.err = "Do error"
  /\ wlog[ret.req] = <<"handleSendPostMessage">>
  /\ responseChan[ret.req] = <<>>
  /\ requestList # <<>>

----------------------------------------------------------------------------
\* The worker after shutdown

\* C30: once the shutdown channel is closed no request is sent to the server
\* any more: the worker starts no new HTTP call for a request that is on the
\* queue at that moment or is enqueued afterwards (such a request is to be
\* answered with ErrClientShutdown instead), so no step of the main loop
\* takes a request off the queue into handleSendPostMessage while the
\* channel is closed.
C30_NoSendAfterShutdown ==
  [][(worker.pc # "handleSendPostMessage" /\ worker'.pc = "handleSendPostMessage")
       => shutdown = "open"]_vars

----------------------------------------------------------------------------
\* Termination of Shutdown

\* A Shutdown call that holds the lock goes on: the scheduler runs its drain
\* loop and its return whenever they can proceed.
FairShutdown ==
  /\ WF_vars(ShutdownDrain)
  /\ WF_vars(ShutdownReturn)

\* The client of Spec with a Shutdown call that is scheduled.
SpecShutdown ==
  Init /\ [][Next]_vars /\ FairShutdown

\* The drain loop can take its next turn, or the call can return: the send
\* to the request at the cursor finds room on its channel.
DrainCanProceed ==
  (requestLock = "Shutdown" /\ ~panicked) =>
    /\ shut.e <= Len(requestList) =>
         (responseChan[requestList[shut.e]] = <<>> /\ ENABLED ShutdownDrain)
    /\ shut.e > Len(requestList) => ENABLED ShutdownReturn

\* C31: every Shutdown call terminates: the drain loop, which sends
\* ErrClientShutdown to each registered request while holding the registry
\* lock, never waits on a channel that is full, so the lock is always
\* released and addRequest, removeRequest and Shutdown calls are never kept
\* waiting for it for ever.
C31_ShutdownTerminates ==
  /\ []DrainCanProceed
  /\ (requestLock = "Shutdown") ~> (requestLock = "free" /\ shut.returned)

\* C31 witness: Shutdown has returned and released the lock after draining
\* a registered request, while another request's reply sits on its channel.
C31_Witness ==
  /\ shut.returned
  /\ requestLock = "free"
  /\ shut.pending # {}
  /\ \E h \in CustomRequests : wlog[h] = <<"handleMessage">> /\ responseChan[h] # <<>>

----------------------------------------------------------------------------
\* Termination of the worker

\* The worker goroutine is scheduled: each step of sendPostHandler is taken
\* when it can proceed, and an HTTP call in progress returns.
FairWorker ==
  /\ WF_vars(sendPostHandlerRecv)
  /\ WF_vars(sendPostHandlerShutdown)
  /\ WF_vars(\E o \in HTTPOutcomes : handleSendPostMessage(o))
  /\ WF_vars(sendPostHandlerCleanupRecv)
  /\ WF_vars(sendPostHandlerCleanupSend)
  /\ WF_vars(sendPostHandlerDone)

\* The client of Spec with a worker that is scheduled; nothing obliges the
\* consumers to receive from their futures.
SpecWorker ==
  Init /\ [][Next]_vars /\ FairWorker

\* The worker is at a send on a response channel that holds a value.
WorkerBlocked ==
  /\ worker.pc \in {"handleSendPostMessage", "cleanupSend"}
  /\ responseChan[worker.cur] # <<>>

\* C32: in HTTP POST mode, once Shutdown has been called and the HTTP calls
\* in progress return, the worker leaves its main loop, finishes its cleanup
\* loop and exits, so that WaitForShutdown can return; the worker is never
\* kept at a send on a response channel that already holds a value.
C32_WorkerExits ==
  /\ []~WorkerBlocked
  /\ (HTTPPostMode /\ shutdown = "closed") ~> (worker.pc = "done" /\ wg = 0)

----------------------------------------------------------------------------
\* One worker and its queue

\* The worker goroutines New has started and that have not exited: one in
\* HTTP POST mode, none otherwise.
OneWorker ==
  /\ wg <= 1
  /\ HTTPPostMode => (wg = 1 <=> worker.pc # "done")
  /\ ~HTTPPostMode => (wg = 0 /\ worker.pc = "notStarted")

\* The request in the HTTP call is not on the queue, and no request is on
\* the queue twice.
QueueDistinct ==
  /\ worker.cur # 0 => ~InQueue(worker.cur)
  /\ \A i, j \in DOMAIN sendPostChan : sendPostChan[i] = sendPostChan[j] => i = j

\* A step that changes the queue puts a request at its end, or takes the
\* request at its front for the worker.
QueueIsFIFO ==
  sendPostChan' # sendPostChan =>
    \/ \E h \in Handles :
         /\ calls[h].pc = "enqueue"
         /\ sendPostChan' = Append(sendPostChan, h)
         /\ worker' = worker
    \/ /\ worker.pc \in {"select", "cleanup"}
       /\ sendPostChan # <<>>
       /\ worker'.cur = Head(sendPostChan)
       /\ sendPostChan' = Tail(sendPostChan)

\* C33: in HTTP POST mode a client has exactly one worker, so at most one
\* HTTP call is in progress at any time, and the requests are taken from the
\* work queue in the order they were put on it.
C33_OneWorkerFIFO ==
  /\ []OneWorker
  /\ []QueueDistinct
  /\ [][QueueIsFIFO]_vars

\* C33 witness: the worker is in the HTTP call for the request that was
\* enqueued first, the second sendCmd call's, while the request of the
\* first call waits on the queue behind it.
C33_Witness ==
  /\ worker.pc = "handleSendPostMessage"
  /\ worker.cur = 2
  /\ sendPostChan = <<1>>
  /\ shutdown = "open"

----------------------------------------------------------------------------
\* A request sendPost cannot build

\* The requests for which http.NewRequestWithContext gave an error.
Unbuilt ==
  {h \in Handles : wlog[h] # <<>> /\ wlog[h][1] = "sendPost"}

\* C34: when sendPost cannot build the HTTP request it sends exactly one
\* response, carrying that error, on the request's channel and does not put
\* the request on the work queue, so the worker never has it.
C34_UnbuiltNotEnqueued ==
  \A h \in Unbuilt :
    /\ wlog[h] = <<"sendPost">>
    /\ calls[h].pc = "returned"
    /\ ~InQueue(h)
    /\ worker.cur # h
    /\ recvd[h] = 0 => responseChan[h] = <<response(NilBytes, "NewRequestWithContext error")>>
    /\ recvd[h] <= 1

\* C34 witness: the worker has exited after answering a queued request,
\* and the error of a request that could not be built has been received.
C34_Witness ==
  /\ worker.pc = "done"
  /\ \E g \in Unbuilt : recvd[g] = 1 /\ responseChan[g] = <<>>
  /\ \E h \in Handles : Writes(h, "handleSendPostMessage") = 1

----------------------------------------------------------------------------
\* The id of a reply and the registry key

\* The ids requests are registered under in this section: the smallest, an
\* ordinary one, and the largest a uint64 holds.
ReplyKeys == {0, 1, Uint64Limit - 1}

\* Replies with a result whose id is, in halves: 0, 1, 1.5, -1, -1.5, the
\* largest uint64, and a whole number a uint64 cannot hold.
IDReplies ==
  {Wire(TRUE, WireNum(n2), "absent", "absent", "abc", "null") :
     n2 \in {0, 2, 3, 0 - 2, 0 - 3, 2 * (Uint64Limit - 1), 2 * Uint64Limit}}

NextReplyID ==
  \/ \E rid \in ReplyKeys : addRequestCustom(rid)
  \/ \E m \in IDReplies : handleMessage(m)
  \/ handleMessageDeliver

\* The client in persistent-connection mode, with requests registered under
\* the ids of ReplyKeys and replies carrying every kind of numeric id.
SpecReplyID ==
  InitDecoder /\ [][NextReplyID]_vars

\* The id of m is a non-negative number with no fractional part.
WholeNonNegative(m) ==
  m.id.n2 >= 0 /\ m.id.n2 % 2 = 0

\* C35: a reply with a non-null id is looked up in the registry only when
\* the id is a non-negative number with no fractional part; for such an id
\* the registry key used is the same integer, and for a negative or
\* fractional id nothing is looked up or removed, even when a request with
\* the truncated id is registered.
C35_LookupByTheSameInteger ==
  [][\A m \in IDReplies :
       handleMessage(m) =>
         IF WholeNonNegative(m)
         THEN IF (m.id.n2 \div 2) \in DOMAIN requestMap
              THEN /\ hmRet' = "removed"
                   /\ hmPending'[1].h = requestMap[m.id.n2 \div 2]
                   /\ requestMap' = [k \in DOMAIN requestMap \ {m.id.n2 \div 2} |->
                                       requestMap[k]]
              ELSE /\ hmRet' = "noRequest"
                   /\ UNCHANGED <<requestMap, requestList, hmPending>>
         ELSE /\ hmRet' = "badID"
              /\ UNCHANGED <<requestMap, requestList, hmPending>>
    ]_vars

----------------------------------------------------------------------------
\* SessionAsync

\* SessionAsync without its check of the mode.
SessionAsyncMut(ctx) ==
  sendCmd("valid", ctx)

\* func (c *Client) SessionAsync(ctx context.Context) FutureSessionResult
SessionAsync(ctx) ==
  IF HTTPPostMode
  THEN /\ ~panicked
       /\ Len(calls) < issued + MaxCalls
       /\ newFutureError(Call("SessionAsync", 0, FALSE, "returned"), "ErrWebsocketsRequired")
       /\ UNCHANGED <<HTTPPostMode, id, shutdown, closes, panicked, requestLock,
                      requestMap, requestList, sendPostChan, worker, wg, shut, hmRet,
                      hmPending>>
       /\ UNCHANGED ext
  ELSE sendCmd("valid", ctx)

NextSession ==
  \/ Next
  \/ \E ctx \in Contexts : SessionAsync(ctx)

\* The client with callers of SessionAsync.
SpecSession ==
  Init /\ [][NextSession]_vars

\* C36: in HTTP POST mode SessionAsync returns a future that already holds
\* an error, and it allocates no id, leaves the registry and its lock alone
\* and puts nothing on the work queue.
C36_SessionAsyncHTTP ==
  [][\A ctx \in Contexts :
       (HTTPPostMode /\ SessionAsync(ctx)) =>
         /\ Len(calls') = Len(calls) + 1
         /\ calls'[Len(calls')].pc = "returned"
         /\ responseChan'[Len(calls')] = <<response(NilBytes, "ErrWebsocketsRequired")>>
         /\ \A h \in Handles : responseChan'[h] = responseChan[h]
         /\ UNCHANGED <<id, requestMap, requestList, requestLock, sendPostChan, worker>>
    ]_vars

\* C36 witness: in HTTP POST mode SessionAsync has returned a future holding
\* its error while a request is registered; the id counter stands where
\* addRequest left it.
C36_Witness ==
  /\ HTTPPostMode
  /\ requestList # <<>>
  /\ id = 1
  /\ \E h \in Handles :
       /\ calls[h].kind = "SessionAsync"
       /\ responseChan[h] = <<response(NilBytes, "ErrWebsocketsRequired")>>

----------------------------------------------------------------------------
\* The bloom filter with its callers

NextBloom ==
  \/ \E key \in Keys, item \in Items, fail \in RedisFailures : Update(key, item, fail)
  \/ \E key \in Keys, item \in Items, fail \in RedisFailures : IsExist(key, item, fail)
  \/ \E key \in Keys : Del(key)

\* A bloom filter over a Redis server that other clients use too.
SpecBloom ==
  InitDecoder /\ [][NextBloom]_vars

\* IsExist(key, item) returns what the claimed rule demands of it whenever
\* Update(key, item) has returned nil and no bit of the key was cleared since:
\* (true, nil), whatever Redis does.
IsExistAlwaysTrue ==
  \A key \in Keys, item \in Items, fail \in RedisFailures :
    (<<key, item>> \in updated /\ IsExist(key, item, fail))
      => bloomRet' = [f |-> "IsExist", ok |-> TRUE, err |-> NoErr]

\* The same with the case of a failing GETBIT set apart: IsExist then returns
\* (false, that error).
IsExistTrueUnlessRedisFails ==
  \A key \in Keys, item \in Items, fail \in RedisFailures :
    (<<key, item>> \in updated /\ IsExist(key, item, fail))
      => bloomRet' = IF fail.cmd = "GETBIT"
                     THEN [f |-> "IsExist", ok |-> FALSE, err |-> "GETBIT error"]
                     ELSE [f |-> "IsExist", ok |-> TRUE, err |-> NoErr]

\* Each of the eight positions of an item lies in 0 .. 2^30-1.
PositionsInRange ==
  \A item \in Items : \A f \in 1..NumHashFuncs :
    real_value[item][f] \in 0..(Base * Base - 1)

\* The bits of an updated item are the eight positions IsExist reads.
SamePositions ==
  \A p \in updated : \A f \in 1..NumHashFuncs : real_value[p[2]][f] \in redis[p[1]]

\* Update clears no bit, sets none but the positions of its item and leaves
\* the other keys alone.
UpdateOnlySetsBits ==
  \A key \in Keys, item \in Items, fail \in RedisFailures :
    Update(key, item, fail)
      => /\ \A k \in Keys : redis[k] \subseteq redis'[k]
         /\ \A k \in Keys \ {key} : redis'[k] = redis[k]
         /\ redis'[key] \ redis[key] \subseteq {real_value[item][f] : f \in 1..NumHashFuncs}

\* Update of an item that is already in the filter changes no bit.
UpdateAgainChangesNothing ==
  \A key \in Keys, item \in Items, fail \in RedisFailures :
    (<<key, item>> \in updated /\ Update(key, item, fail)) => redis' = redis

\* C37 as stated: the filter has no false negatives: after Update(key, item)
\* returned nil and while no bit of the key is cleared, IsExist(key, item)
\* returns (true, nil); both use the same eight positions, each within
\* 0 .. 2^30-1; Update only sets bits; Update again changes nothing.
C37_NoFalseNegatives ==
  /\ [](PositionsInRange /\ SamePositions)
  /\ [][IsExistAlwaysTrue /\ UpdateOnlySetsBits /\ UpdateAgainChangesNothing]_vars

\* C37 amended: the same, except that IsExist returns (true, nil) only if its
\* own GETBIT commands succeed, and (false, the error) if one of them fails.
C37_NoFalseNegativesUnlessRedisFails ==
  /\ [](PositionsInRange /\ SamePositions)
  /\ [][IsExistTrueUnlessRedisFails /\ UpdateOnlySetsBits /\ UpdateAgainChangesNothing]_vars

\* C37 witness: IsExist has returned (true, nil) for the item Update stored
\* under "k", while a failed Update left some bits under "j".
C37_Witness ==
  /\ bloomRet = [f |-> "IsExist", ok |-> TRUE, err |-> NoErr]
  /\ updated = {<<"k", <<97, 98, 99, 100, 101, 102, 103, 104>>>>}
  /\ redis["j"] # {}

----------------------------------------------------------------------------
\* doShutdown called by goroutines that do not hold the request lock

\* func (c *Client) doShutdown() bool, the select: return false if c.shutdown
\* is closed, go on to the close if not.
doShutdownSelect(g) ==
  /\ ~panicked
  /\ doShutdownCalls[g].pc = "call"
  /\ doShutdownCalls' = [doShutdownCalls EXCEPT ![g] =
                           IF ShutdownClosed
                           THEN [pc |-> "returned", ret |-> "false"]
                           ELSE [pc |-> "close", ret |-> "none"]]
  /\ UNCHANGED <<HTTPPostMode, id, shutdown, closes, panicked, requestLock, requestMap,
                 requestList, calls, responseChan, wlog, recvd, sendPostChan, worker,
                 wg, shut, hmRet, hmPending, issued, peerID, nextIDLog, ret, waited,
                 bloom>>

\* doShutdown: close(c.shutdown) and return true. close of a closed channel
\* panics.
doShutdownClose(g) ==
  /\ ~panicked
  /\ doShutdownCalls[g].pc = "close"
  /\ shutdown' = "closed"
  /\ closes' = closes + 1
  /\ panicked' = ShutdownClosed
  /\ doShutdownCalls' = [doShutdownCalls EXCEPT ![g] =
                           IF ShutdownClosed
                           THEN [pc |-> "panicked", ret |-> "none"]
                           ELSE [pc |-> "returned", ret |-> "true"]]
  /\ UNCHANGED <<HTTPPostMode, id, requestLock, requestMap, requestList, calls,
                 responseChan, wlog, recvd, sendPostChan, worker, wg, shut, hmRet,
                 hmPending, issued, peerID, nextIDLog, ret, waited, bloom>>

NextDoShutdown ==
  \/ Next
  \/ \E g \in Callers : doShutdownSelect(g)
  \/ \E g \in Callers : doShutdownClose(g)

\* The client with goroutines that call doShutdown themselves.
SpecDoShutdown ==
  Init /\ [][NextDoShutdown]_vars

\* The calls of doShutdown that returned true: those of the callers, and that
\* of Shutdown once its drain has begun.
DoShutdownTrue ==
  Cardinality({g \in Callers : doShutdownCalls[g].ret = "true"})
  + (IF shut.e # 0 \/ shut.returned THEN 1 ELSE 0)

\* C38: doShutdown is safe for concurrent access: however its callers
\* interleave, close(c.shutdown) is executed at most once and never on a closed
\* channel, at most one call returns true, a call returns false only when the
\* channel is closed, and once it is closed exactly one call has returned true.
C38_DoShutdownConcurrent ==
  /\ closes <= 1
  /\ \A g \in Callers : doShutdownCalls[g].pc # "panicked"
  /\ DoShutdownTrue <= 1
  /\ \A g \in Callers : doShutdownCalls[g].ret = "false" => ShutdownClosed
  /\ ShutdownClosed => (closes = 1 /\ DoShutdownTrue = 1)

\* Shutdown is between its doShutdown and its return: the loop over
\* c.requestList and c.removeAllRequests() are still to run.
ShutdownInProgress ==
  shut.e # 0

\* C39: removeAllRequests runs only with the request lock held by its caller:
\* from Shutdown's doShutdown to its return the lock is Shutdown's, the step
\* that runs removeAllRequests is taken with the lock held, and meanwhile no
\* addRequest and no removeRequest can run.
C39_RemoveAllUnderLock ==
  /\ [](ShutdownInProgress =>
          /\ requestLock = "Shutdown"
          /\ ~ENABLED addRequest
          /\ \A rid \in RequestIDs : ~ENABLED addRequestCustom(rid)
          /\ \A rid \in RequestIDs \cup {MaxRequests + 1} : ~ENABLED removeRequest(rid))
  /\ [][ShutdownReturn => requestLock = "Shutdown"]_vars

\* C39 witness: removeAllRequests has emptied a registry that held requests,
\* and Shutdown has returned and released the lock.
C39_Witness ==
  /\ shut.returned
  /\ shut.pending # {}
  /\ requestMap = EmptyMap
  /\ requestList = <<>>
  /\ requestLock = "free"

====
